---- MODULE Spec2Model ----
(***************************************************************************)
(* The native bridge of the SOS debugger extension (tmds/diagnostics):     *)
(* the DataTarget facade (src/SOS/Strike/datatarget.cpp) and the hosting   *)
(* bridge, symbol store and scratch directory (src/SOS/Strike/             *)
(* hostcoreclr.cpp).                                                       *)
(***************************************************************************)
EXTENDS Integers, Sequences, FiniteSets, TLC

(***************************************************************************)
(* Bounds of the model.                                                    *)
(***************************************************************************)
MaxThreads == 3
MaxRefs == 3
MaxShutdownCalls == 3
MaxTempDirs == 2
MaxFiles == 2
MaxSubdirs == 1
MaxListing == 2
MaxBootstraps == 2
MaxModules == 2
MaxSeqPoints == 3
MaxUrlLen == 3
MaxDirFiles == 2
MaxAddress == 3
MaxRequest == 2
MaxDocs == 2
MaxScopes == 4

(***************************************************************************)
(* HRESULT values.  FAILED(hr) is the sign test on the code.               *)
(***************************************************************************)
S_OK == "S_OK"
S_FALSE == "S_FALSE"
E_FAIL == "E_FAIL"
E_UNEXPECTED == "E_UNEXPECTED"
E_INVALIDARG == "E_INVALIDARG"
E_NOINTERFACE == "E_NOINTERFACE"

SuccessCodes == {S_OK, S_FALSE}
E_OUTOFMEMORY == "E_OUTOFMEMORY"
E_ACCESSDENIED == "E_ACCESSDENIED"
FailureCodes ==
    {E_FAIL, E_UNEXPECTED, E_INVALIDARG, E_NOINTERFACE, E_OUTOFMEMORY, E_ACCESSDENIED}
HResults == SuccessCodes \cup FailureCodes

FAILED(hr) == hr \in FailureCodes
SUCCEEDED(hr) == ~FAILED(hr)

\* What a call into the debugger engine or another external service returns.
ExtFailures == {E_FAIL, E_UNEXPECTED}
ExtResults == {S_OK} \cup ExtFailures

NULL == "nullptr"

VARIABLES
    pal,            \* TRUE: the FEATURE_PAL build (lldb), FALSE: the dbgeng build
    machine,        \* the installation: [root, listing] of the runtime install root
    pdb,            \* the sequence points the legacy reader gives for the method
    docs,           \* the URLs of the documents the legacy reader gives, in order
    pFilename,      \* the file name a breakpoint is asked for
    sosDir,         \* the entries of the extension's directory, as enumerated
    runtimeDir,     \* the entries of the hosting runtime's directory
    scopes,         \* the scope tree the legacy reader gives for the method
    curThread,      \* the debugger engine's current thread (engine thread id)
    tc,             \* per caller: the frame of a DataTarget::GetThreadContext call
    m_ref,          \* DataTarget::m_ref
    rc,             \* per thread: the frame of an AddRef/Release call
    everReferenced, \* an AddRef has run on the object
    destroyed,      \* how many times "delete this" has run
    deleters,       \* the Release calls that ran "delete this": [thread, ref]
    g_tmpPath,      \* hostcoreclr.cpp g_tmpPath
    scratch,        \* the scratch directory on disk: [exists, files, subdirs]
    sd,             \* per caller: the frame of a SOSShutdown call
    tmpSets,        \* how many times GetTempDirectory recorded a path in g_tmpPath
    obtains,        \* how many SOSShutdown exchanges returned a non-null path
    cleanups,       \* how many SOSShutdown cleanup passes have run
    shutdownCalls,  \* how many SOSShutdown calls have been made
    g_hostingInitialized,       \* hostcoreclr.cpp g_hostingInitialized
    g_symbolStoreInitialized,   \* hostcoreclr.cpp g_symbolStoreInitialized
    g_hostRuntimeDirectory,     \* the pinned hosting directory, or NoDirectory
    g_dacFilePath,
    g_dbiFilePath,
    callbacks,      \* g_SOSNetCoreCallbacks: one slot per bound operation
    reader,         \* a SymbolReader: [m_pSymReader, m_symbolReaderHandle]
    bootRuns,       \* how many InitializeHosting calls went past the flag test
    runtimeStarts,  \* how many coreclr_initialize calls returned success
    crashed,        \* a call through a null operation pointer has been made
    pathInitialized,\* InitializeSymbolStore() has passed the search path to the bridge
    last            \* what the last handler did (see LastNone)

inputVars == <<pdb, docs, pFilename, sosDir, runtimeDir, scopes>>
tcVars == <<curThread, tc>>
rcVars == <<m_ref, rc, everReferenced, destroyed, deleters>>
sdVars == <<g_tmpPath, scratch, sd, tmpSets, obtains, cleanups, shutdownCalls>>
hostVars == <<g_hostingInitialized, g_symbolStoreInitialized, g_hostRuntimeDirectory,
              g_dacFilePath, g_dbiFilePath, callbacks, reader, bootRuns,
              runtimeStarts, crashed, pathInitialized, last>>
vars == <<pal, machine, inputVars, tcVars, rcVars, sdVars, hostVars>>

(***************************************************************************)
(* DataTarget::GetThreadContext                                            *)
(***************************************************************************)
\* Engine thread ids, and the system (OS) thread id of each.
Threads == 0 .. (MaxThreads - 1)
SystemIdOf(t) == 1000 + (4 * t)
\* A system thread id the target has no thread for.
UnknownSystemId == SystemIdOf(MaxThreads) - 1
RequestIds == {SystemIdOf(t) : t \in Threads} \cup {UnknownSystemId}

Callers == {"c1", "c2"}

\* IDebugSystemObjects::GetThreadIdBySystemId
KnownSystemId(id) == \E t \in Threads : SystemIdOf(t) = id
ThreadIdBySystemId(id) == CHOOSE t \in Threads : SystemIdOf(t) = id

TcIdle ==
    [pc |-> "idle", threadID |-> UnknownSystemId, orig |-> 0, req |-> 0,
     hr |-> S_OK, before |-> 0, switched |-> FALSE, restore |-> "none",
     fetchHr |-> "none", fetchedThread |-> -1, ret |-> "none"]

TcReturn(c, hr) == [tc EXCEPT ![c].pc = "done", ![c].ret = hr]

\* Entry: the null checks of the service pointers, and on the FEATURE_PAL
\* build the whole call (ILLDBServices::GetThreadContextById).
GTC_Begin(c) ==
    /\ tc[c].pc = "idle"
    /\ \E threadID \in RequestIds, attached \in BOOLEAN, extHr \in ExtResults :
        LET f == [TcIdle EXCEPT !.threadID = threadID, !.before = curThread] IN
        IF ~attached
        THEN tc' = [tc EXCEPT ![c] = [f EXCEPT !.pc = "done", !.ret = E_UNEXPECTED]]
        ELSE IF pal
        THEN tc' = [tc EXCEPT ![c] = [f EXCEPT !.pc = "done", !.ret = extHr,
                                               !.fetchHr = extHr]]
        ELSE tc' = [tc EXCEPT ![c] = [f EXCEPT !.pc = "getcur"]]
    /\ UNCHANGED curThread

\* hr = g_ExtSystem->GetCurrentThreadId(&ulThreadIDOrig)
GTC_GetCurrent(c) ==
    /\ tc[c].pc = "getcur"
    /\ \E hr \in ExtResults :
        IF FAILED(hr)
        THEN tc' = TcReturn(c, hr)
        ELSE tc' = [tc EXCEPT ![c].pc = "lookup", ![c].orig = curThread, ![c].hr = hr]
    /\ UNCHANGED curThread

\* hr = g_ExtSystem->GetThreadIdBySystemId(threadID, &ulThreadIDRequested)
GTC_Lookup(c) ==
    /\ tc[c].pc = "lookup"
    /\ \E hr \in (IF KnownSystemId(tc[c].threadID) THEN ExtResults ELSE ExtFailures) :
        IF FAILED(hr)
        THEN tc' = TcReturn(c, hr)
        ELSE tc' = [tc EXCEPT ![c].pc = "switch", ![c].hr = hr,
                              ![c].req = ThreadIdBySystemId(tc[c].threadID)]
    /\ UNCHANGED curThread

\* hr = g_ExtSystem->SetCurrentThreadId(ulThreadIDRequested)
\* A SetCurrentThreadId that fails leaves the engine's current thread alone.
GTC_Switch(c) ==
    /\ tc[c].pc = "switch"
    /\ \E hr \in ExtResults :
        IF FAILED(hr)
        THEN /\ tc' = TcReturn(c, hr)
             /\ UNCHANGED curThread
        ELSE /\ tc' = [tc EXCEPT ![c].pc = "fetch", ![c].hr = hr, ![c].switched = TRUE]
             /\ curThread' = tc[c].req

\* ZeroMemory, ContextFlags, hr = g_ExtAdvanced->GetThreadContext(context, size):
\* the engine fills in the context of its current thread.
GTC_Fetch(c) ==
    /\ tc[c].pc = "fetch"
    /\ \E hr \in ExtResults :
        tc' = [tc EXCEPT ![c].pc = "restore", ![c].hr = hr, ![c].fetchHr = hr,
                         ![c].fetchedThread = IF FAILED(hr) THEN -1 ELSE curThread]
    /\ UNCHANGED curThread

\* The thread id passed to the cleanup SetCurrentThreadId.
GTC_RestoreTargetWrong(c) == tc[c].req
GTC_RestoreTarget(c) == tc[c].orig

\* The value GetThreadContext returns after the cleanup call returned restoreHr.
GTC_ResultOverwritten(c, restoreHr) == IF FAILED(restoreHr) THEN restoreHr ELSE tc[c].hr
GTC_Result(c, restoreHr) == tc[c].hr

\* g_ExtSystem->SetCurrentThreadId(ulThreadIDOrig); return hr;
GTC_Restore(c) ==
    /\ tc[c].pc = "restore"
    /\ \E restoreHr \in ExtResults :
        /\ curThread' = IF FAILED(restoreHr) THEN curThread ELSE GTC_RestoreTarget(c)
        /\ tc' = [tc EXCEPT ![c].pc = "done",
                            ![c].restore = IF FAILED(restoreHr) THEN "failed" ELSE "ok",
                            ![c].ret = GTC_Result(c, restoreHr)]

\* The caller has taken the result.
GTC_Finish(c) ==
    /\ tc[c].pc = "done"
    /\ tc' = [tc EXCEPT ![c] = TcIdle]
    /\ UNCHANGED curThread

NoCallInProgress == \A c \in Callers : tc[c].pc = "idle"

\* The user of the debugger selects another thread between commands.
UserSelectsThread ==
    /\ NoCallInProgress
    /\ \E t \in Threads : t # curThread /\ curThread' = t
    /\ UNCHANGED tc

(***************************************************************************)
(* DataTarget::AddRef / DataTarget::Release                                *)
(***************************************************************************)
RefThreads == {"t1", "t2", "t3"}

RcIdle == [pc |-> "idle", ref |-> 0, held |-> 0]

\* LONG ref = InterlockedIncrement(&m_ref); return ref;
\* A thread takes a reference on a fresh object or from a live holder.
AddRef(t) ==
    /\ rc[t].pc = "idle"
    /\ destroyed = 0
    /\ m_ref < MaxRefs
    /\ ~everReferenced \/ m_ref > 0
    /\ m_ref' = m_ref + 1
    /\ rc' = [rc EXCEPT ![t].held = @ + 1, ![t].ref = m_ref + 1]
    /\ everReferenced' = TRUE
    /\ UNCHANGED <<destroyed, deleters>>

\* LONG ref = InterlockedDecrement(&m_ref);
ReleaseDecrement(t) ==
    /\ rc[t].pc = "idle"
    /\ rc[t].held > 0
    /\ m_ref' = m_ref - 1
    /\ rc' = [rc EXCEPT ![t].pc = "dec", ![t].held = @ - 1, ![t].ref = m_ref - 1]
    /\ UNCHANGED <<everReferenced, destroyed, deleters>>

\* if (ref == 0)
ReleaseSeesZeroShared(t) == m_ref = 0
ReleaseSeesZero(t) == rc[t].ref = 0

\* if (ref == 0) { delete this; } return ref;
ReleaseFinish(t) ==
    /\ rc[t].pc = "dec"
    /\ IF ReleaseSeesZero(t)
       THEN /\ destroyed' = destroyed + 1
            /\ deleters' = deleters \cup {[thread |-> t, ref |-> rc[t].ref]}
       ELSE UNCHANGED <<destroyed, deleters>>
    /\ rc' = [rc EXCEPT ![t].pc = "idle"]
    /\ UNCHANGED <<m_ref, everReferenced>>

(***************************************************************************)
(* GetTempDirectory / SOSShutdown                                          *)
(***************************************************************************)
ShutdownCallers == {"shutdown", "atexit"}

\* "<temp>/sos<pid>/": the same name on every call in one process.
TempDirectoryName == "sosdir"

\* What the clean-up of one SOSShutdown call met and left: the directory as it
\* was, whether a DeleteFileA failed, whether RemoveDirectoryA was refused for a
\* reason of its own, and whether the directory is gone.
NoClean ==
    [ran |-> FALSE, existed |-> FALSE, files |-> 0, subdirs |-> 0,
     deleteFailed |-> FALSE, refused |-> FALSE, gone |-> FALSE, subdirsLeft |-> 0]
SdIdle == [pc |-> "idle", tmpPath |-> NULL, fsOps |-> 0, clean |-> NoClean]

\* static LPCSTR GetTempDirectory()
GetTempDirectory ==
    /\ g_tmpPath = NULL
    /\ tmpSets < MaxTempDirs
    /\ g_tmpPath' = TempDirectoryName
    /\ scratch' = IF scratch.exists THEN scratch
                  ELSE [exists |-> TRUE, files |-> 0, subdirs |-> 0]
    /\ tmpSets' = tmpSets + 1
    /\ UNCHANGED <<sd, obtains, cleanups, shutdownCalls>>

\* A symlink or a downloaded file lands in the scratch directory.
ScratchAddFile ==
    /\ g_tmpPath # NULL
    /\ scratch.exists
    /\ scratch.files < MaxFiles
    /\ scratch' = [scratch EXCEPT !.files = @ + 1]
    /\ UNCHANGED <<g_tmpPath, sd, tmpSets, obtains, cleanups, shutdownCalls>>

\* A download leaves a subdirectory in the scratch directory.
ScratchAddSubdir ==
    /\ g_tmpPath # NULL
    /\ scratch.exists
    /\ scratch.subdirs < MaxSubdirs
    /\ scratch' = [scratch EXCEPT !.subdirs = @ + 1]
    /\ UNCHANGED <<g_tmpPath, sd, tmpSets, obtains, cleanups, shutdownCalls>>

\* What the exchange leaves in g_tmpPath.
ExchangedValueKept(old) == old
ExchangedValue(old) == NULL

\* LPCSTR tmpPath = InterlockedExchangePointer(&g_tmpPath, nullptr);
SD_Exchange(s) ==
    /\ sd[s].pc = "idle"
    /\ shutdownCalls < MaxShutdownCalls
    /\ shutdownCalls' = shutdownCalls + 1
    /\ g_tmpPath' = ExchangedValue(g_tmpPath)
    /\ sd' = [sd EXCEPT ![s] = [pc |-> IF g_tmpPath # NULL THEN "cleanup" ELSE "done",
                                tmpPath |-> g_tmpPath, fsOps |-> 0,
                                clean |-> NoClean]]
    /\ obtains' = IF g_tmpPath # NULL THEN obtains + 1 ELSE obtains
    /\ UNCHANGED <<scratch, tmpSets, cleanups>>

\* if ((data.dwFileAttributes & FILE_ATTRIBUTE_DIRECTORY) == 0) DeleteFileA(file):
\* the subdirectories the loop leaves of n.
SubdirsDeleted(n) == 0
SubdirsSkipped(n) == n

\* if (tmpPath != nullptr) { delete every non-directory entry;
\*                           RemoveDirectoryA(tmpPath); free(tmpPath); }
\* Each DeleteFileA may fail; RemoveDirectoryA removes an empty directory only,
\* and may be refused even then.
SD_Cleanup(s) ==
    /\ sd[s].pc = "cleanup"
    /\ \E left \in 0 .. scratch.files, refused \in BOOLEAN :
        LET subdirsLeft == SubdirsSkipped(scratch.subdirs)
            empty == scratch.exists /\ left = 0 /\ subdirsLeft = 0
            gone == empty /\ ~refused
        IN  /\ scratch.exists \/ left = scratch.files
            /\ refused => empty
            /\ scratch' = IF gone
                          THEN [exists |-> FALSE, files |-> 0, subdirs |-> 0]
                          ELSE [scratch EXCEPT !.files = left, !.subdirs = subdirsLeft]
            /\ sd' = [sd EXCEPT ![s].pc = "done", ![s].fsOps = @ + 1,
                                ![s].clean =
                                    [ran |-> TRUE, existed |-> scratch.exists,
                                     files |-> scratch.files,
                                     subdirs |-> scratch.subdirs,
                                     deleteFailed |-> left > 0, refused |-> refused,
                                     gone |-> gone, subdirsLeft |-> subdirsLeft]]
    /\ cleanups' = cleanups + 1
    /\ UNCHANGED <<g_tmpPath, tmpSets, obtains, shutdownCalls>>

\* SOSShutdown has returned.
SD_Return(s) ==
    /\ sd[s].pc = "done"
    /\ sd' = [sd EXCEPT ![s].pc = "idle"]
    /\ UNCHANGED <<g_tmpPath, scratch, tmpSets, obtains, cleanups, shutdownCalls>>

(***************************************************************************)
(* GetHostRuntime / FindDotNetVersion                                      *)
(***************************************************************************)
\* A directory entry name is a sequence of tokens: a decimal number with its
\* sign (as %d reads it), a '.', or any other text.
Num(n) == [kind |-> "num", val |-> n]
Dot == [kind |-> "dot", val |-> 0]
Text == [kind |-> "text", val |-> 0]

VersionName(a, b, c) == <<Num(a), Dot, Num(b), Dot, Num(c)>>
EntryNames ==
    {VersionName(2, 1, 0), VersionName(2, 1, 13), VersionName(2, 2, 8),
     VersionName(3, 0, 0), VersionName(1, 1, 2), VersionName(2, 1, -1),
     VersionName(2, 1, 13) \o <<Text>>, <<Num(2), Dot, Num(1)>>, <<Text>>}
NoName == <<>>

\* sscanf_s(data.cFileName, "%d.%d.%d", &major, &minor, &revision) == 3
ScanVersion(name) ==
    IF /\ Len(name) >= 5
       /\ name[1].kind = "num" /\ name[2].kind = "dot" /\ name[3].kind = "num"
       /\ name[4].kind = "dot" /\ name[5].kind = "num"
    THEN [ok |-> TRUE, major |-> name[1].val, minor |-> name[3].val,
          revision |-> name[5].val]
    ELSE [ok |-> FALSE, major |-> 0, minor |-> 0, revision |-> 0]

\* if (revision >= highestRevision)
RevisionAlwaysReplaces(revision, highestRevision) == TRUE
RevisionReplaces(revision, highestRevision) == revision >= highestRevision

\* The do/while over FindFirstFileA/FindNextFileA: versionFound after entry i.
RECURSIVE FindDotNetVersionScan(_, _, _, _, _, _)
FindDotNetVersionScan(listing, i, majorFilter, minorFilter, highestRevision, versionFound) ==
    IF i > Len(listing) THEN versionFound
    ELSE LET v == ScanVersion(listing[i].name) IN
         IF /\ listing[i].isDir
            /\ v.ok
            /\ v.major = majorFilter /\ v.minor = minorFilter
            /\ RevisionReplaces(v.revision, highestRevision)
         THEN FindDotNetVersionScan(listing, i + 1, majorFilter, minorFilter,
                                    v.revision, listing[i].name)
         ELSE FindDotNetVersionScan(listing, i + 1, majorFilter, minorFilter,
                                    highestRevision, versionFound)

\* static bool FindDotNetVersion(majorFilter, minorFilter, hostRuntimeDirectory):
\* the version directory appended, or NoName when it returns false.
FindDotNetVersion(majorFilter, minorFilter, listing) ==
    FindDotNetVersionScan(listing, 1, majorFilter, minorFilter, 0, NoName)

\* A directory path: an install root and the version directory under it.
NoDirectory == [root |-> "", version |-> NoName]
TargetRuntimeDirectory == [root |-> "target", version |-> NoName]

\* g_linuxPaths, probed in order with access(); the loop leaves the last one
\* assigned when none is accessible.
LinuxPaths == <<"rh-dotnet21", "rh-dotnet20", "usr-share-dotnet">>
RECURSIVE FirstAccessible(_, _)
FirstAccessible(accessible, i) ==
    IF i >= Len(LinuxPaths) \/ LinuxPaths[i] \in accessible THEN LinuxPaths[i]
    ELSE FirstAccessible(accessible, i + 1)

RECURSIVE SeqsUpTo(_, _)
SeqsUpTo(S, n) ==
    IF n = 0 THEN {<<>>}
    ELSE LET shorter == SeqsUpTo(S, n - 1) IN
         shorter \cup {Append(q, e) : q \in shorter, e \in S}

Listings ==
    {l \in SeqsUpTo([name : EntryNames, isDir : BOOLEAN], MaxListing) :
        \A i, j \in 1 .. Len(l) : i # j => l[i].name # l[j].name}

\* The version lines tried newest first.
DiscoverNewestFirst(root, listing, targetHr) ==
    IF root = "" THEN [hr |-> E_FAIL, dir |-> NoDirectory]
    ELSE LET v21 == FindDotNetVersion(2, 1, listing)
             v22 == FindDotNetVersion(2, 2, listing)
             v30 == FindDotNetVersion(3, 0, listing)
         IN  IF v30 # NoName THEN [hr |-> S_OK, dir |-> [root |-> root, version |-> v30]]
             ELSE IF v22 # NoName THEN [hr |-> S_OK, dir |-> [root |-> root, version |-> v22]]
             ELSE IF v21 # NoName THEN [hr |-> S_OK, dir |-> [root |-> root, version |-> v21]]
             ELSE IF FAILED(targetHr) THEN [hr |-> targetHr, dir |-> NoDirectory]
             ELSE [hr |-> S_OK, dir |-> TargetRuntimeDirectory]

\* The body of GetHostRuntime when g_hostRuntimeDirectory is not set yet:
\* root is the install root (or "" when PROGRAMFILES is not set), listing its
\* entries, targetHr the result of the GetCoreClrDirectory fallback.
DiscoverHostRuntime(root, listing, targetHr) ==
    IF root = "" THEN [hr |-> E_FAIL, dir |-> NoDirectory]
    ELSE LET v21 == FindDotNetVersion(2, 1, listing)
             v22 == FindDotNetVersion(2, 2, listing)
             v30 == FindDotNetVersion(3, 0, listing)
         IN  IF v21 # NoName THEN [hr |-> S_OK, dir |-> [root |-> root, version |-> v21]]
             ELSE IF v22 # NoName THEN [hr |-> S_OK, dir |-> [root |-> root, version |-> v22]]
             ELSE IF v30 # NoName THEN [hr |-> S_OK, dir |-> [root |-> root, version |-> v30]]
             ELSE IF FAILED(targetHr) THEN [hr |-> targetHr, dir |-> NoDirectory]
             ELSE [hr |-> S_OK, dir |-> TargetRuntimeDirectory]

\* The install root GetHostRuntime starts from: on the FEATURE_PAL (Linux)
\* build the first accessible path of g_linuxPaths, on the dbgeng build the
\* directory under %PROGRAMFILES% ("" when the variable is not set).
InstallRoots(p) ==
    IF p THEN {FirstAccessible(acc, 1) :
                 acc \in SUBSET {LinuxPaths[i] : i \in 1 .. Len(LinuxPaths)}}
    ELSE {"", "programfiles"}
Machines(p) == [root : InstallRoots(p), listing : Listings]

\* The machines the hosting specifications start on: no runtime installed, and
\* two 2.1 revisions installed.
TypicalMachines(p) ==
    {m \in Machines(p) :
        /\ m.root \in {"usr-share-dotnet", "programfiles"}
        /\ m.listing \in {<<>>, <<[name |-> VersionName(2, 1, 13), isDir |-> TRUE],
                                 [name |-> VersionName(2, 1, 0), isDir |-> TRUE]>>}}

\* static HRESULT GetHostRuntime(coreClrPath, hostRuntimeDirectory):
\* [hr, dir, probed] for each result of the GetCoreClrDirectory fallback.
\* if (g_hostRuntimeDirectory == nullptr) is false
HostRuntimeNeverPinned(dir) == FALSE
HostRuntimePinned(dir) == dir # NoDirectory

GetHostRuntimeOutcomes ==
    IF HostRuntimePinned(g_hostRuntimeDirectory)
    THEN {[hr |-> S_OK, dir |-> g_hostRuntimeDirectory, probed |-> FALSE]}
    ELSE {[hr |-> d.hr, dir |-> d.dir, probed |-> TRUE] :
            d \in {DiscoverHostRuntime(machine.root, machine.listing, t) :
                     t \in ExtResults}}

(***************************************************************************)
(* The arguments of SOSInitializeByHost                                    *)
(***************************************************************************)
NoHostArgs ==
    [size |-> 0, tempDirectory |-> NULL, dacFilePath |-> NULL,
     dbiFilePath |-> NULL, symbolStoreEnabled |-> FALSE]

(***************************************************************************)
(* InitializeHosting                                                       *)
(***************************************************************************)
\* The operations of g_SOSNetCoreCallbacks, in the order InitializeHosting
\* binds them.
OpNames ==
    <<"InitializeSymbolStore", "DisplaySymbolStore", "DisableSymbolStore",
      "LoadNativeSymbols", "LoadSymbolsForModule", "Dispose",
      "ResolveSequencePoint", "GetLocalVariableName", "GetLineByILOffset",
      "GetMetadataLocator">>
NumOps == Len(OpNames)
SlotOf(name) == CHOOSE i \in 1 .. NumOps : OpNames[i] = name

EmptyTable == [i \in 1 .. NumOps |-> NULL]
NoReader == [m_pSymReader |-> NULL, m_symbolReaderHandle |-> 0]

\* What the InitializeHosting call of a handler did: called (the handler
\* reached it), ran (it went past the flag test), probed (GetHostRuntime
\* searched the install root), loaded (the library load was attempted), started
\* (coreclr_initialize was called), startOk (and returned success), binds
\* (createDelegate calls made), failAt (the failing step), code (the HRESULT
\* the failing step produced), hr (the value InitializeHosting returned).
BootNone ==
    [called |-> FALSE, ran |-> FALSE, probed |-> FALSE, loaded |-> FALSE,
     started |-> FALSE, startOk |-> FALSE, binds |-> 0, failAt |-> "none",
     code |-> S_OK, hr |-> S_OK]

\* The steps of InitializeHosting in program order.
StageRank(stage) ==
    CASE stage = "disc" -> 1
      [] stage = "sosdir" -> 2
      [] stage = "load" -> 3
      [] stage = "entry" -> 4
      [] stage = "exe" -> 5
      [] stage = "start" -> 6
      [] stage = "bind" -> 7
      [] stage = "none" -> 8

\* What the LoadNativeSymbols call of a handler was given and found: called,
\* enabled (the flag when it was called), runtimeOnly, modules (the target's
\* native modules), lookup (the result of the debugger-service calls), found
\* (the companion files the bridge reported for the runtime module).
NoNative ==
    [called |-> FALSE, enabled |-> FALSE, runtimeOnly |-> FALSE, modules |-> <<>>,
     lookup |-> S_OK, found |-> {}]
\* What GetDacFilePath / GetDbiFilePath found: recorded (the path was already
\* recorded), dirHr (GetCoreClrDirectory), exists (the companion is there),
\* link (the symlink call: "none" when the host makes none).
NoProbe == [recorded |-> FALSE, dirHr |-> S_OK, exists |-> FALSE, link |-> "none"]

\* What GetLineByILOffset was asked and answered: called, path ("portable",
\* "legacy" or "none"), ilOffset (the argument as the caller wrote it), fail
\* (the reader call that failed), line (*pLinenum; 0: not written).
NoLineQuery == [called |-> FALSE, path |-> "none", ilOffset |-> 0, fail |-> "none",
                line |-> 0]

\* What ResolveSequencePoint did: called, path, scanned (how many document
\* URLs it compared), matched (the documents whose URL matched), decided (the
\* index of the document it decided on; 0: none), fail (the reader call that
\* failed).
\* What LoadSymbols did with a static module: the result of the legacy
\* attempt ("none": not made).
NoLoad == [static |-> FALSE, legacy |-> "none"]
\* What DataTarget::ReadVirtual did: the calls it made to the debugger's
\* memory service and what became of the caller's buffer and *done.
NoRead ==
    [called |-> FALSE, extData |-> FALSE, sos |-> FALSE, regions |-> {},
     address |-> 0, request |-> 0, service |-> <<>>, outcome |-> "none",
     buffer |-> "untouched", done |-> "untouched"]
\* What one SymbolFileCallback call was given and did: the module file name,
\* the symbol-file path, the result of QueryInterface(ILLDBServices2) had it
\* been asked, and the paths handed to AddModuleSymbol.
NoSymbolFile ==
    [called |-> FALSE, module |-> "none", path |-> "none", qi |-> S_OK,
     forwarded |-> <<>>]
\* The trusted-assembly list a bootstrap built, each item a directory and a
\* file name.
NoTpa == [built |-> FALSE, list |-> <<>>]
\* What GetNamedLocalVariable did: the scopes whose locals it read, in order,
\* the locals it took for the index, what it left in paramName and *ppValue.
NoLocalQuery ==
    [called |-> FALSE, path |-> "none", localIndex |-> 0, visited |-> <<>>,
     found |-> <<>>, name |-> "none", value |-> "none", fail |-> "none"]
NoResolve ==
    [called |-> FALSE, path |-> "none", scanned |-> 0, matched |-> {}, decided |-> 0,
     fail |-> "none", closest |-> <<>>, end |-> "none"]

\* The state a handler works on while it runs, committed when it returns.
Ctx0 ==
    [init |-> g_hostingInitialized, enabled |-> g_symbolStoreInitialized,
     dir |-> g_hostRuntimeDirectory, table |-> callbacks, reader |-> reader,
     tmpPath |-> g_tmpPath, dac |-> g_dacFilePath, dbi |-> g_dbiFilePath,
     invoked |-> <<>>, crashed |-> FALSE, boot |-> BootNone, hr |-> S_OK,
     symInit |-> "none", reentered |-> FALSE,
     scratch |-> scratch, tmpSets |-> tmpSets, native |-> NoNative, probe |-> NoProbe,
     lines |-> NoLineQuery, resolve |-> NoResolve, load |-> NoLoad,
     read |-> NoRead, sym |-> NoSymbolFile, tpa |-> NoTpa, local |-> NoLocalQuery,
     cold |-> FALSE]

\* if (g_hostingInitialized) return S_OK;
HostingNeverSkips(x) == FALSE
HostingSkipsAfterAttempt(x) == x.init \/ bootRuns > 0
HostingSkipsBootstrap(x) == x.init

\* What can happen in one run of the bootstrap: the outcome of GetHostRuntime,
\* the step that fails ("none": all succeed), the failure code of that step and,
\* for a binding failure, which createDelegate call fails.
\* The createDelegate calls taken to fail: the first, the one binding
\* LoadSymbolsForModule, and the last (the metadata locator).
BindFailureIndexes == {1, SlotOf("LoadSymbolsForModule"), NumOps}
NoScenario ==
    [disc |-> [hr |-> S_OK, dir |-> NoDirectory, probed |-> FALSE],
     failAt |-> "none", hr |-> S_OK, bindIndex |-> 0]
BootScenarios ==
    LET outs == GetHostRuntimeOutcomes
        good == {d \in outs : SUCCEEDED(d.hr)}
    IN  {[disc |-> d, failAt |-> "disc", hr |-> d.hr, bindIndex |-> 0] :
            d \in outs \ good}
        \cup {[disc |-> d, failAt |-> st, hr |-> E_FAIL, bindIndex |-> 0] :
            d \in good, st \in {"sosdir", "load", "entry", "exe"}}
        \cup {[disc |-> d, failAt |-> "start", hr |-> h, bindIndex |-> 0] :
            d \in good, h \in ExtFailures}
        \cup {[disc |-> d, failAt |-> "bind", hr |-> h, bindIndex |-> k] :
            d \in good, h \in ExtFailures, k \in BindFailureIndexes}
        \cup {[disc |-> d, failAt |-> "none", hr |-> S_OK, bindIndex |-> 0] :
            d \in good}
HostingInputs == IF HostingSkipsBootstrap(Ctx0) THEN {NoScenario} ELSE BootScenarios

\* g_hostingInitialized = true; is reached only past the last IfFailRet.
HostingFlagSetBeforeBinding(sc) == sc.failAt \in {"bind", "none"}
HostingFlagCommitted(sc) == sc.failAt = "none"

\* The HRESULT a failing bootstrap step makes InitializeHosting return.
BootFailureAlwaysFail(sc) == IF sc.failAt = "none" THEN S_OK ELSE E_FAIL
BootResult(sc) == sc.hr

\* IfFailRet(createDelegate(...)) ten times: the slots bound, in table order,
\* before the run ends.
BindingsMadePastFailure(sc) == IF sc.failAt \in {"bind", "none"} THEN NumOps ELSE 0
BindingsMade(sc) ==
    IF sc.failAt = "bind" THEN sc.bindIndex - 1
    ELSE IF sc.failAt = "none" THEN NumOps ELSE 0

\* HRESULT InitializeHosting()
InitializeHosting(x, sc) ==
    IF HostingSkipsBootstrap(x)
    THEN [x EXCEPT !.hr = S_OK, !.boot = [BootNone EXCEPT !.called = TRUE]]
    ELSE LET rank == StageRank(sc.failAt)
             bound == BindingsMade(sc)
         IN  [x EXCEPT
                !.hr = BootResult(sc),
                !.dir = IF SUCCEEDED(sc.disc.hr) THEN sc.disc.dir ELSE x.dir,
                !.table = [i \in 1 .. NumOps |->
                             IF i <= bound THEN "clr" ELSE x.table[i]],
                !.init = HostingFlagCommitted(sc),
                !.boot = [called |-> TRUE, ran |-> TRUE, probed |-> sc.disc.probed,
                          loaded |-> rank >= 3, started |-> rank >= 6,
                          startOk |-> rank >= 7,
                          binds |-> IF sc.failAt = "bind" THEN sc.bindIndex
                                    ELSE IF sc.failAt = "none" THEN NumOps ELSE 0,
                          failAt |-> sc.failAt, code |-> sc.hr,
                          hr |-> BootResult(sc)]]

\* A call through g_SOSNetCoreCallbacks.<name>Delegate; through a null pointer
\* the process dies.  cold: an operation was called with g_hostingInitialized
\* still false.
Invoke(x, name) ==
    IF x.crashed THEN x
    ELSE IF x.table[SlotOf(name)] = NULL THEN [x EXCEPT !.crashed = TRUE]
    ELSE [x EXCEPT !.invoked = Append(@, name), !.cold = @ \/ ~x.init]

\* The handler op returns hr (or the process has died in it): its effects
\* become the program's state.
CommitHost(op, x, hr, hostArgs) ==
    /\ g_hostingInitialized' = x.init
    /\ g_symbolStoreInitialized' = x.enabled
    /\ g_hostRuntimeDirectory' = x.dir
    /\ g_dacFilePath' = x.dac
    /\ g_dbiFilePath' = x.dbi
    /\ g_tmpPath' = x.tmpPath
    /\ callbacks' = x.table
    /\ reader' = x.reader
    /\ bootRuns' = bootRuns + (IF x.boot.ran THEN 1 ELSE 0)
    /\ runtimeStarts' = runtimeStarts + (IF x.boot.startOk THEN 1 ELSE 0)
    /\ crashed' = x.crashed
    /\ pathInitialized' = (pathInitialized \/ x.symInit \in {"first", "again"})
    /\ last' = [op |-> op, boot |-> x.boot,
                hr |-> IF x.crashed THEN "crash" ELSE hr,
                invoked |-> x.invoked, host |-> hostArgs,
                symInit |-> x.symInit, reentered |-> x.reentered,
                native |-> x.native, probe |-> x.probe, lines |-> x.lines,
                resolve |-> x.resolve, load |-> x.load,
                read |-> x.read, sym |-> x.sym, tpa |-> x.tpa, local |-> x.local,
                cold |-> x.cold]
    /\ scratch' = x.scratch
    /\ tmpSets' = x.tmpSets
    /\ UNCHANGED <<sd, obtains, cleanups, shutdownCalls>>

Commit(op, x, hr) == CommitHost(op, x, hr, NoHostArgs)

\* Before any handler has run.
LastNone ==
    [op |-> "none", boot |-> BootNone, hr |-> "none",
     invoked |-> <<>>, host |-> NoHostArgs, symInit |-> "none", reentered |-> FALSE,
     native |-> NoNative, probe |-> NoProbe, lines |-> NoLineQuery,
     resolve |-> NoResolve, load |-> NoLoad, read |-> NoRead,
     sym |-> NoSymbolFile, tpa |-> NoTpa, local |-> NoLocalQuery, cold |-> FALSE]

\* A handler that calls InitializeHosting can run.
CanCallHosting == ~crashed /\ (HostingSkipsBootstrap(Ctx0) \/ bootRuns < MaxBootstraps)

\* InitializeHosting called by a command of the extension.
InitializeHostingCall ==
    /\ CanCallHosting
    /\ \E sc \in HostingInputs :
        LET x == InitializeHosting(Ctx0, sc) IN Commit("InitializeHosting", x, x.hr)

(***************************************************************************)
(* InitializeSymbolStore / DisableSymbolStore                              *)
(***************************************************************************)
\* What g_ExtSymbols->GetSymbolPath gives: a failure, "" or a search path.
SymbolPaths == {"unavailable", "empty", "srv*cache"}
SymbolPathInputs(x) == IF pal \/ x.enabled THEN {"unavailable"} ELSE SymbolPaths

\* if (!g_symbolStoreInitialized)
SymbolStoreInitNeeded(x) == ~x.enabled

\* void InitializeSymbolStore(): compiled to nothing on the FEATURE_PAL build.
\* symInit: "skipped" when no search path is passed on, "first" / "again" when
\* the path is passed to the initialize operation for the first / a later time.
InitializeSymbolStoreNoArg(x, symbolPath) ==
    IF pal \/ x.crashed \/ ~SymbolStoreInitNeeded(x) THEN x
    ELSE LET y == [x EXCEPT !.enabled = TRUE] IN
         IF symbolPath \in {"unavailable", "empty"} THEN [y EXCEPT !.symInit = "skipped"]
         ELSE Invoke([y EXCEPT !.symInit = IF pathInitialized THEN "again" ELSE "first"],
                     "InitializeSymbolStore")

\* g_symbolStoreInitialized = true; is reached only when the delegate returned
\* true.
SymbolStoreMarkedAlways(delegateOk) == TRUE
SymbolStoreMarked(delegateOk) == delegateOk

\* HRESULT InitializeSymbolStore(logging, msdl, symweb, symbolServer, cacheDirectory)
InitializeSymbolStore5 ==
    /\ CanCallHosting
    /\ \E sc \in HostingInputs :
        LET x == InitializeHosting(Ctx0, sc)
            y == Invoke(x, "InitializeSymbolStore")
        IN  IF FAILED(x.hr) THEN Commit("InitializeSymbolStore5", x, x.hr)
            ELSE IF y.crashed THEN Commit("InitializeSymbolStore5", y, E_FAIL)
            ELSE \E delegateOk \in BOOLEAN :
                    LET z == [y EXCEPT !.enabled = SymbolStoreMarked(delegateOk) \/ @]
                    IN  Commit("InitializeSymbolStore5", z,
                               IF delegateOk THEN S_OK ELSE E_FAIL)

\* void DisplaySymbolStore()
DisplaySymbolStore ==
    /\ ~crashed
    /\ IF g_symbolStoreInitialized
       THEN Commit("DisplaySymbolStore", Invoke(Ctx0, "DisplaySymbolStore"), "void")
       ELSE Commit("DisplaySymbolStore", Ctx0, "void")

\* g_symbolStoreInitialized = false; comes before the delegate call.
DisableClearsFlagAfter(x) == FALSE
DisableClearsFlagFirst(x) == TRUE

\* The body of DisableSymbolStore, once the flag has been found set; nested is
\* what runs while the disable operation is running.
DisableSymbolStoreEnabled(x, nested) ==
    LET a == IF DisableClearsFlagFirst(x) THEN [x EXCEPT !.enabled = FALSE] ELSE x
        b == Invoke(a, "DisableSymbolStore")
        c == IF b.crashed THEN b
             ELSE IF nested = "DisableSymbolStore" /\ b.enabled
                  THEN Invoke([b EXCEPT !.reentered = TRUE], "DisableSymbolStore")
             ELSE [b EXCEPT !.reentered = (nested = "DisableSymbolStore")]
    IN  [c EXCEPT !.enabled = FALSE]

\* void DisableSymbolStore(); the disable operation may call back into
\* DisableSymbolStore (a teardown that runs during the teardown).
DisableSymbolStore ==
    /\ ~crashed
    /\ IF g_symbolStoreInitialized
       THEN \E nested \in {"none", "DisableSymbolStore"} :
               Commit("DisableSymbolStore", DisableSymbolStoreEnabled(Ctx0, nested), "void")
       ELSE Commit("DisableSymbolStore", Ctx0, "void")

(***************************************************************************)
(* DataTarget::GetMetadata                                                 *)
(***************************************************************************)
\* if (FAILED(hr)) return hr;
GetMetadataNeverStops(hr) == FALSE
GetMetadataStops(hr) == FAILED(hr)

GetMetadata ==
    /\ CanCallHosting
    /\ \E sc \in HostingInputs :
        LET x == InitializeHosting(Ctx0, sc) IN
        IF GetMetadataStops(x.hr) THEN Commit("GetMetadata", x, x.hr)
        ELSE \E symbolPath \in SymbolPathInputs(x), locatorHr \in ExtResults :
                Commit("GetMetadata",
                       Invoke(InitializeSymbolStoreNoArg(x, symbolPath),
                              "GetMetadataLocator"),
                       locatorHr)

(***************************************************************************)
(* SymbolReader::LoadSymbols                                               *)
(***************************************************************************)
\* SymbolReader::LoadSymbolsForWindowsPDB: [hr, bound] for each way the binder
\* calls can end; with a reader already bound it returns S_OK at once.  The
\* caller discards a failure code, so one stands for all of them.
LegacyOutcomes(x) ==
    IF x.reader.m_pSymReader # NULL THEN {[hr |-> S_OK, bound |-> TRUE]}
    ELSE {[hr |-> h, bound |-> FALSE] : h \in {E_FAIL, S_FALSE}}
         \cup {[hr |-> S_OK, bound |-> TRUE]}
LoadSymbolsForWindowsPDB(x, lg) ==
    [x EXCEPT !.hr = lg.hr,
              !.reader.m_pSymReader = IF lg.bound THEN "legacy" ELSE NULL,
              !.load.legacy = lg.hr]

\* if (SUCCEEDED(hr)) return hr;  under #ifndef FEATURE_PAL
LegacyEndsOnOk(x) == ~pal /\ x.hr = S_OK
LegacyEnds(x) == ~pal /\ SUCCEEDED(x.hr)

\* The module name handed to the bridge: the converted name, or
\* WideCharToMultiByte fails.
NameCases == {"converted", "conversionFails"}
\* The handle LoadSymbolsForModule returns: 0 (no symbols) or a handle, which
\* the code only compares with 0 and hands back; it is not called when the
\* conversion fails.
HandlesFor(nameCase) == IF nameCase = "conversionFails" THEN {0} ELSE {0, 1}

\* SymbolReader::LoadSymbolsForPortablePDB, after InitializeHosting succeeded.
LoadSymbolsForPortablePDBTail(x, symbolPath, nameCase, handle) ==
    LET y == InitializeSymbolStoreNoArg(x, symbolPath)
        z == Invoke(y, "LoadSymbolsForModule")
    IN  IF y.crashed THEN y
        ELSE IF nameCase = "conversionFails" THEN [y EXCEPT !.hr = E_FAIL]
        ELSE IF z.crashed THEN z
        ELSE [z EXCEPT !.reader.m_symbolReaderHandle = handle,
                       !.hr = IF handle = 0 THEN E_FAIL ELSE x.hr]

\* HRESULT SymbolReader::LoadSymbols(IMetaDataImport*, IXCLRDataModule*)
\* pre: the result of GetFlags / DacpGetModuleData::Request / GetFileName, or
\* "dynamic" for a module flagged CLRDATA_MODULE_IS_DYNAMIC.
LoadSymbols ==
    /\ CanCallHosting
    /\ \E pre \in ExtResults \cup {"dynamic"} :
        IF pre = "dynamic" THEN Commit("LoadSymbols", Ctx0, E_FAIL)
        ELSE IF FAILED(pre) THEN Commit("LoadSymbols", Ctx0, pre)
        ELSE \E lg \in (IF pal THEN {[hr |-> E_FAIL, bound |-> FALSE]}
                        ELSE LegacyOutcomes(Ctx0)) :
            LET s == [Ctx0 EXCEPT !.load.static = TRUE]
                w == IF pal THEN s ELSE LoadSymbolsForWindowsPDB(s, lg) IN
            IF LegacyEnds(w) THEN Commit("LoadSymbols", w, w.hr)
            ELSE \E sc \in HostingInputs :
                LET x == InitializeHosting(w, sc) IN
                IF FAILED(x.hr) THEN Commit("LoadSymbols", x, x.hr)
                ELSE \E symbolPath \in SymbolPathInputs(x), nameCase \in NameCases :
                     \E handle \in HandlesFor(nameCase) :
                    LET z == LoadSymbolsForPortablePDBTail(x, symbolPath, nameCase, handle)
                    IN  Commit("LoadSymbols", z, z.hr)

(***************************************************************************)
(* LoadNativeSymbols / GetDacFilePath / GetDbiFilePath                     *)
(***************************************************************************)
\* if (g_tmpPath == nullptr)
NeverRecorded(x) == x.tmpPath = NULL /\ x.tmpSets = 0
NoPathRecorded(x) == x.tmpPath = NULL

\* GetTempDirectory() called from inside a handler.
GetTempDirectoryIn(x) ==
    IF ~NoPathRecorded(x) THEN x
    ELSE [x EXCEPT !.tmpPath = TempDirectoryName,
                   !.scratch = IF @.exists THEN @
                               ELSE [exists |-> TRUE, files |-> 0, subdirs |-> 0],
                   !.tmpSets = @ + 1]

\* A call of GetTempDirectory() on its own (GetDacFilePath and
\* LoadNativeSymbolsCallback make it); the call returns g_tmpPath.
GetTempDirectoryCall ==
    /\ ~crashed
    /\ g_tmpPath = NULL => tmpSets < MaxTempDirs
    /\ LET x == GetTempDirectoryIn(Ctx0) IN Commit("GetTempDirectory", x, x.tmpPath)

\* A step of SOSShutdown, seen as the last thing the extension did.
ShutdownStep ==
    /\ last' = [LastNone EXCEPT !.op = "SOSShutdown"]
    /\ UNCHANGED <<g_hostingInitialized, g_symbolStoreInitialized,
                   g_hostRuntimeDirectory, g_dacFilePath, g_dbiFilePath, callbacks,
                   reader, bootRuns, runtimeStarts, crashed, pathInitialized>>

\* The native modules of the target: the runtime module ("coreclr") at most
\* once, among other modules.
ModuleLists ==
    {l \in SeqsUpTo({"coreclr", "native"}, MaxModules) :
        Cardinality({i \in 1 .. Len(l) : l[i] = "coreclr"}) <= 1}
CompanionFiles == {"mscordaccore", "mscordbi"}

\* static void SymbolFileCallback(param, moduleFileName, symbolFilePath), for
\* the files the bridge reports.
SymbolFileCallback(x, found) ==
    [x EXCEPT !.dac = IF "mscordaccore" \in found /\ @ = NULL THEN "downloadedDac" ELSE @,
              !.dbi = IF "mscordbi" \in found /\ @ = NULL THEN "downloadedDbi" ELSE @]

\* The module file names and symbol-file paths the symbol downloader reports.
ModuleFileNames == {"coreclr", "mscordaccore", "mscordbi", "native"}
SymbolFilePaths == {"symbolFileA", "symbolFileB"}

\* if (g_dacFilePath == nullptr) g_dacFilePath = _strdup(symbolFilePath);
RecordsAlways(recorded, symbolFilePath) == symbolFilePath
RecordsIfNone(recorded, symbolFilePath) ==
    IF recorded = NULL THEN symbolFilePath ELSE recorded

\* static void SymbolFileCallback(param, moduleFileName, symbolFilePath), one
\* call; qi is the result of QueryInterface(ILLDBServices2).
SymbolFileCallbackFor(x, moduleFileName, symbolFilePath, qi) ==
    LET y == [x EXCEPT !.sym = [called |-> TRUE, module |-> moduleFileName,
                                path |-> symbolFilePath, qi |-> qi,
                                forwarded |-> <<>>]]
    IN  IF moduleFileName = "coreclr" THEN y
        ELSE IF moduleFileName = "mscordaccore"
        THEN [y EXCEPT !.dac = RecordsIfNone(@, symbolFilePath)]
        ELSE IF moduleFileName = "mscordbi"
        THEN [y EXCEPT !.dbi = RecordsIfNone(@, symbolFilePath)]
        ELSE IF pal /\ SUCCEEDED(qi)
        THEN [y EXCEPT !.sym.forwarded = <<symbolFilePath>>]
        ELSE y

\* The symbol downloader reports a file.
SymbolFileCallbackCall ==
    /\ ~crashed
    /\ \E moduleFileName \in ModuleFileNames, symbolFilePath \in SymbolFilePaths,
          qi \in ExtResults :
        LET x == SymbolFileCallbackFor(Ctx0, moduleFileName, symbolFilePath, qi)
        IN  Commit("SymbolFileCallback", x, "void")

\* static void LoadNativeSymbolsCallback(param, moduleFilePath, address, size)
LoadNativeSymbolsCallback(x, module, found) ==
    LET y == Invoke(GetTempDirectoryIn(x), "LoadNativeSymbols") IN
    IF y.crashed \/ module # "coreclr" THEN y ELSE SymbolFileCallback(y, found)

RECURSIVE LoadNativeSymbolsEach(_, _, _, _)
LoadNativeSymbolsEach(x, modules, i, found) ==
    IF i > Len(modules) \/ x.crashed THEN x
    ELSE LoadNativeSymbolsEach(LoadNativeSymbolsCallback(x, modules[i], found),
                               modules, i + 1, found)

\* The modules handed to the callback: ILLDBServices2::LoadNativeSymbols
\* enumerates all of them or the runtime module only; the dbgeng build looks
\* the runtime module up when runtimeOnly and has no branch for the rest.
EnumeratedModules(p, runtimeOnly, modules) ==
    IF runtimeOnly THEN SelectSeq(modules, LAMBDA n : n = "coreclr")
    ELSE IF p THEN modules ELSE <<>>

\* if (g_symbolStoreInitialized)
LoadNativeSymbolsAlwaysRuns(x) == TRUE
LoadNativeSymbolsRuns(x) == x.enabled

\* HRESULT LoadNativeSymbols(bool runtimeOnly): in.lookup is the result of
\* QueryInterface/ILLDBServices2::LoadNativeSymbols (FEATURE_PAL) or of the
\* module lookups (dbgeng), whose result the function does not return.
LoadNativeSymbolsIn(x, in) ==
    LET y == [x EXCEPT !.native = [called |-> TRUE, enabled |-> x.enabled,
                                   runtimeOnly |-> in.runtimeOnly,
                                   modules |-> in.modules, lookup |-> in.lookup,
                                   found |-> in.found],
                       !.hr = S_OK]
    IN  IF ~LoadNativeSymbolsRuns(x) THEN y
        ELSE IF FAILED(in.lookup) THEN [y EXCEPT !.hr = IF pal THEN in.lookup ELSE S_OK]
        ELSE LoadNativeSymbolsEach(
                 y, EnumeratedModules(pal, in.runtimeOnly, in.modules), 1, in.found)

\* The inputs of one pass: the module list is read only when the lookup
\* succeeded, the files found only for an enumerated runtime module.
NativeInputs(x) ==
    IF ~LoadNativeSymbolsRuns(x)
    THEN {[runtimeOnly |-> r, modules |-> <<"native", "coreclr">>, lookup |-> S_OK,
           found |-> {}] : r \in BOOLEAN}
    ELSE {in \in [runtimeOnly : BOOLEAN, modules : ModuleLists, lookup : ExtResults,
                  found : SUBSET CompanionFiles] :
            /\ FAILED(in.lookup) => in.modules = <<>>
            /\ in.found # {} =>
                   LET e == EnumeratedModules(pal, in.runtimeOnly, in.modules)
                   IN  \E i \in 1 .. Len(e) : e[i] = "coreclr"}

LoadNativeSymbols ==
    /\ ~crashed
    /\ \E in \in NativeInputs(Ctx0) :
        LET x == LoadNativeSymbolsIn(Ctx0, in) IN Commit("LoadNativeSymbols", x, x.hr)

\* The companion in the runtime directory is taken: on the FEATURE_PAL build
\* when access() finds it, on the dbgeng build without a test.
CompanionAcceptedIfExists(p, exists) == exists
CompanionAlwaysAccepted(p, exists) == TRUE
CompanionAccepted(p, exists) == ~p \/ exists

\* The probe of the runtime directory in GetDacFilePath / GetDbiFilePath.
ProbeInputs == [dirHr : ExtResults, exists : BOOLEAN]
ProbeAccepts(pr) == SUCCEEDED(pr.dirHr) /\ CompanionAccepted(pal, pr.exists)
RuntimeOnlyInputs(x) == {in \in NativeInputs(x) : in.runtimeOnly}

\* The symlink to the DAC made in the scratch directory (#if defined(__linux__));
\* the other FEATURE_PAL hosts make none.
SymLinks == {"none", "made", "failed"}
DacSymLinkIgnored(x, link) ==
    IF link = "none" THEN [x EXCEPT !.dac = "runtimeDac"]
    ELSE [GetTempDirectoryIn(x) EXCEPT !.dac = "runtimeDac"]
DacSymLink(x, link) ==
    IF link = "none" THEN [x EXCEPT !.dac = "runtimeDac"]
    ELSE LET y == GetTempDirectoryIn(x) IN
         IF link = "made" THEN [y EXCEPT !.dac = "symlinkDac", !.scratch.files = @ + 1]
         ELSE [y EXCEPT !.dac = "runtimeDac"]

\* LPCSTR GetDacFilePath()
GetDacFilePath ==
    /\ ~crashed
    /\ IF g_dacFilePath # NULL
       THEN Commit("GetDacFilePath", [Ctx0 EXCEPT !.probe.recorded = TRUE], g_dacFilePath)
       ELSE \E pr \in ProbeInputs :
            LET x == [Ctx0 EXCEPT !.probe = [NoProbe EXCEPT !.dirHr = pr.dirHr,
                                                            !.exists = pr.exists]]
            IN  IF ProbeAccepts(pr)
                THEN IF pal
                     THEN \E link \in SymLinks :
                            LET y == DacSymLink([x EXCEPT !.probe.link = link], link)
                            IN  Commit("GetDacFilePath", y, y.dac)
                     ELSE Commit("GetDacFilePath", [x EXCEPT !.dac = "runtimeDac"], "runtimeDac")
                ELSE \E in \in RuntimeOnlyInputs(x) :
                       LET y == LoadNativeSymbolsIn(x, in) IN Commit("GetDacFilePath", y, y.dac)

\* LPCSTR GetDbiFilePath()
GetDbiFilePath ==
    /\ ~crashed
    /\ IF g_dbiFilePath # NULL
       THEN Commit("GetDbiFilePath", [Ctx0 EXCEPT !.probe.recorded = TRUE], g_dbiFilePath)
       ELSE \E pr \in ProbeInputs :
            LET x == [Ctx0 EXCEPT !.probe = [NoProbe EXCEPT !.dirHr = pr.dirHr,
                                                            !.exists = pr.exists]]
            IN  IF ProbeAccepts(pr)
                THEN Commit("GetDbiFilePath", [x EXCEPT !.dbi = "runtimeDbi"], "runtimeDbi")
                ELSE \E in \in RuntimeOnlyInputs(x) :
                       LET y == LoadNativeSymbolsIn(x, in) IN Commit("GetDbiFilePath", y, y.dbi)

(***************************************************************************)
(* SymbolReader::GetLineByILOffset                                         *)
(***************************************************************************)
\* const ULONG32 HiddenLine = 0x00feefee;
HiddenLine == 16707566

\* An unsigned 64-bit value: four 16-bit limbs, the most significant first.
LimbBase == 2 ^ 16
\* The conversion of an int argument n (-LimbBase <= n) to ULONG64.
ToULONG64(n) ==
    IF n >= 0 THEN <<0, 0, (n \div LimbBase) % LimbBase, n % LimbBase>>
    ELSE <<LimbBase - 1, LimbBase - 1, LimbBase - 1, LimbBase + n>>
\* The promotion of a ULONG32 to 64 bits.
PromoteULONG32(u) == <<0, 0, (u \div LimbBase) % LimbBase, u % LimbBase>>
\* a > b on 64-bit unsigned values
GreaterULONG64(a, b) ==
    \E i \in 1 .. 4 : a[i] > b[i] /\ \A j \in 1 .. (i - 1) : a[j] = b[j]

\* The sequence points of a method, ordered by offset; entry i is on source
\* line i or is a hidden one.
SequencePoint(offset, line) == [offset |-> offset, line |-> line]
ExampleTable ==
    <<SequencePoint(0, 1), SequencePoint(5, HiddenLine), SequencePoint(10, 3)>>
SequencePointTables ==
    {t \in SeqsUpTo([offset : {0, 5, 10}, line : (1 .. MaxSeqPoints) \cup {HiddenLine}],
                    MaxSeqPoints) :
        /\ \A i \in 1 .. Len(t) : t[i].line \in {i, HiddenLine}
        /\ \A i \in 1 .. (Len(t) - 1) : t[i].offset <= t[i + 1].offset}

\* if (lines[i] != HiddenLine)
KeepsHiddenLines(line) == TRUE
SkipsHiddenLine(line) == line # HiddenLine

\* The for loop over the sequence points: bestSoFar after entry i (0: none).
RECURSIVE SequencePointScan(_, _, _, _)
SequencePointScan(table, i, ilOffset, bestSoFar) ==
    IF i > Len(table) THEN bestSoFar
    ELSE IF GreaterULONG64(PromoteULONG32(table[i].offset), ilOffset) THEN bestSoFar
    ELSE SequencePointScan(table, i + 1, ilOffset,
                           IF SkipsHiddenLine(table[i].line) THEN i ELSE bestSoFar)

\* The calls on the legacy reader that can fail, in program order.
ReaderCalls == <<"GetMethod", "GetSequencePointCount", "GetSequencePoints", "GetURL">>
ReaderFailures == {"none"} \cup {ReaderCalls[i] : i \in 1 .. Len(ReaderCalls)}
\* What GetLineByILOffsetDelegate does: the BSTR cannot be allocated, it
\* returns FALSE, it gives line 0, it gives a line.
DelegateAnswers == {"outOfMemory", "false", "lineZero", "line"}
ILOffsets == {-1, 0, 4, 7, 10, 11}

\* The part of GetLineByILOffset under #ifndef FEATURE_PAL.
GetLineLegacy(x, table, in) ==
    LET y == [x EXCEPT !.lines.path = "legacy", !.lines.fail = in.fail]
        bestSoFar == SequencePointScan(table, 1, ToULONG64(in.ilOffset), 0)
    IN  IF in.fail \in {"GetMethod", "GetSequencePointCount"}
        THEN [y EXCEPT !.hr = E_UNEXPECTED]
        ELSE IF Len(table) = 0 THEN [y EXCEPT !.hr = E_FAIL, !.lines.fail = "none"]
        ELSE IF in.fail = "GetSequencePoints" THEN [y EXCEPT !.hr = E_UNEXPECTED]
        ELSE IF bestSoFar = 0 THEN [y EXCEPT !.hr = E_FAIL, !.lines.fail = "none"]
        ELSE IF in.fail = "GetURL" THEN [y EXCEPT !.hr = E_UNEXPECTED]
        ELSE [y EXCEPT !.hr = S_OK, !.lines.line = table[bestSoFar].line]

\* HRESULT SymbolReader::GetLineByILOffset(methodToken, ilOffset, pLinenum,
\*                                         pwszFileName, cchFileName)
GetLineByILOffsetIn(x, table, in) ==
    LET y == [x EXCEPT !.lines = [NoLineQuery EXCEPT !.called = TRUE,
                                                     !.ilOffset = in.ilOffset]]
    IN  IF y.reader.m_symbolReaderHandle # 0
        THEN LET z == [y EXCEPT !.lines.path = "portable"] IN
             IF in.delegate = "outOfMemory" THEN [z EXCEPT !.hr = E_OUTOFMEMORY]
             ELSE LET w == Invoke(z, "GetLineByILOffset") IN
                  IF w.crashed THEN w
                  ELSE IF in.delegate = "line"
                  THEN [w EXCEPT !.hr = S_OK, !.lines.line = 1]
                  ELSE [w EXCEPT !.hr = E_FAIL]
        ELSE IF pal \/ y.reader.m_pSymReader = NULL THEN [y EXCEPT !.hr = E_FAIL]
        ELSE GetLineLegacy(y, table, in)

\* The inputs a call reads: the delegate's answer on the portable path, the
\* failing reader call on the legacy path.
LineInputs(x) ==
    IF x.reader.m_symbolReaderHandle # 0
    THEN [ilOffset : {7}, fail : {"none"}, delegate : DelegateAnswers]
    ELSE IF pal \/ x.reader.m_pSymReader = NULL
    THEN [ilOffset : {7}, fail : {"none"}, delegate : {"false"}]
    ELSE [ilOffset : ILOffsets, fail : ReaderFailures, delegate : {"false"}]

GetLineByILOffset ==
    /\ ~crashed
    /\ \E in \in LineInputs(Ctx0) :
        LET x == GetLineByILOffsetIn(Ctx0, pdb, in) IN
        Commit("GetLineByILOffset", x, x.hr)

(***************************************************************************)
(* SymbolReader::ResolveSequencePoint                                      *)
(***************************************************************************)
\* File names and URLs are sequences of characters.
Alphabet == {"f", "F", "o", "/", "\\"}
FooCs == <<"f", "o", "o", ".", "c", "s">>
SrcFooCs == <<"/", "s", "r", "c", "/">> \o FooCs
BarFooCs == <<"b", "a", "r">> \o FooCs
ExampleUrls == {FooCs, SrcFooCs, BarFooCs, <<"c", "s">>}
Urls == SeqsUpTo(Alphabet, MaxUrlLen) \cup ExampleUrls
Filenames == SeqsUpTo({"F", "o", "/"}, MaxUrlLen - 1) \cup {FooCs}
\* The document lists of a reader: none, any one document, or up to MaxDocs
\* of the example documents.
DocumentLists == {<<u>> : u \in Urls} \cup SeqsUpTo(ExampleUrls, MaxDocs)

\* towlower
ToLower(c) == IF c = "F" THEN "f" ELSE c
\* 0 == _wcsicmp(a, b)
WcsICmpEqual(a, b) ==
    /\ Len(a) = Len(b)
    /\ \A i \in 1 .. Len(a) : ToLower(a[i]) = ToLower(b[i])

\* *slashLocation is '\\' or '/'
AnyCharacter(c) == TRUE
IsSlash(c) == c \in {"\\", "/"}

\* The test of a document URL against pFilename; cchUrl counts the
\* terminating 0.
UrlMatches(url, filename) ==
    LET cchUrl == Len(url) + 1
        filenameLen == Len(filename)
        slashLocation == cchUrl - filenameLen - 2
    IN  IF cchUrl - 1 = filenameLen THEN WcsICmpEqual(url, filename)
        ELSE IF cchUrl - 1 > filenameLen
        THEN /\ IsSlash(url[slashLocation + 1])
             /\ WcsICmpEqual(SubSeq(url, slashLocation + 2, Len(url)), filename)
        ELSE FALSE

\* The calls made on the document decided on, in program order.
DocumentCalls == <<"GetMethodFromDocumentPosition", "GetToken", "GetOffset">>
\* How the call ends once a document is decided on: a call fails, GetOffset
\* gives -1, or it gives an offset.
DocumentEnds == {DocumentCalls[i] : i \in 1 .. Len(DocumentCalls)} \cup {"invalid", "offset"}

\* if (FAILED(pDocs[i]->FindClosestLine(lineNumber, &closestLine))) continue;
ClosestLineNeverSkips(found) == FALSE
ClosestLineSkips(found) == ~found

\* The for loop over the documents from document i on. urlFailAt is the
\* document whose GetURL fails (0: none), closest[j] whether FindClosestLine
\* succeeds on document j.
RECURSIVE ResolveScan(_, _, _, _, _, _, _)
ResolveScan(x, documents, i, filename, urlFailAt, closest, end) ==
    IF i > Len(documents) THEN [x EXCEPT !.hr = E_FAIL]
    ELSE IF urlFailAt = i THEN [x EXCEPT !.hr = E_UNEXPECTED, !.resolve.fail = "GetURL"]
    ELSE IF ~UrlMatches(documents[i], filename)
    THEN ResolveScan([x EXCEPT !.resolve.scanned = i],
                     documents, i + 1, filename, urlFailAt, closest, end)
    ELSE IF ClosestLineSkips(closest[i])
    THEN ResolveScan([x EXCEPT !.resolve.scanned = i, !.resolve.matched = @ \cup {i}],
                     documents, i + 1, filename, urlFailAt, closest, end)
    ELSE LET y == [x EXCEPT !.resolve.scanned = i, !.resolve.matched = @ \cup {i},
                            !.resolve.decided = i, !.resolve.end = end] IN
         IF end = "offset" THEN [y EXCEPT !.hr = S_OK]
         ELSE IF end = "invalid" THEN [y EXCEPT !.hr = E_FAIL]
         ELSE [y EXCEPT !.hr = E_UNEXPECTED, !.resolve.fail = end]

\* The part of ResolveSequencePoint under #ifndef FEATURE_PAL.
ResolveLegacy(x, documents, filename, in) ==
    LET y == [x EXCEPT !.resolve.path = "legacy", !.resolve.closest = in.closest] IN
    IF in.documentsFail
    THEN [y EXCEPT !.hr = E_UNEXPECTED, !.resolve.fail = "GetDocuments"]
    ELSE ResolveScan(y, documents, 1, filename, in.urlFailAt, in.closest, in.end)

\* HRESULT SymbolReader::ResolveSequencePoint(pFilename, lineNumber, pToken,
\*                                            pIlOffset)
\* in.delegate: "conversionFails", "false" or "resolved".
ResolveSequencePointIn(x, documents, filename, in) ==
    LET y == [x EXCEPT !.resolve = [NoResolve EXCEPT !.called = TRUE]] IN
    IF y.reader.m_symbolReaderHandle # 0
    THEN LET z == [y EXCEPT !.resolve.path = "portable"] IN
         IF in.delegate = "conversionFails" THEN [z EXCEPT !.hr = E_FAIL]
         ELSE LET w == Invoke(z, "ResolveSequencePoint") IN
              IF w.crashed THEN w
              ELSE [w EXCEPT !.hr = IF in.delegate = "resolved" THEN S_OK ELSE E_FAIL]
    ELSE IF pal \/ y.reader.m_pSymReader = NULL THEN [y EXCEPT !.hr = E_FAIL]
    ELSE ResolveLegacy(y, documents, filename, in)

\* The inputs a call reads: FindClosestLine is called on matching documents
\* only, and how the call ends matters when one of them is decided on.
NoResolveInput ==
    [delegate |-> "false", documentsFail |-> FALSE, urlFailAt |-> 0,
     closest |-> <<>>, end |-> "offset"]
ResolveInputs(x, documents, filename) ==
    IF x.reader.m_symbolReaderHandle # 0
    THEN {[NoResolveInput EXCEPT !.delegate = d] :
            d \in {"conversionFails", "false", "resolved"}}
    ELSE IF pal \/ x.reader.m_pSymReader = NULL THEN {NoResolveInput}
    ELSE LET n == Len(documents)
             matching == {i \in 1 .. n : UrlMatches(documents[i], filename)}
         IN  {[NoResolveInput EXCEPT !.documentsFail = TRUE]}
             \cup {[NoResolveInput EXCEPT !.urlFailAt = u, !.closest = c, !.end = e] :
                     u \in 0 .. n,
                     c \in {f \in [1 .. n -> BOOLEAN] :
                              \A i \in 1 .. n : ~f[i] => i \in matching},
                     e \in IF matching = {} THEN {"offset"} ELSE DocumentEnds}

ResolveSequencePoint ==
    /\ ~crashed
    /\ \E in \in ResolveInputs(Ctx0, docs, pFilename) :
        LET x == ResolveSequencePointIn(Ctx0, docs, pFilename, in) IN
        Commit("ResolveSequencePoint", x, x.hr)

(***************************************************************************)
(* SymbolReader::GetNamedLocalVariable                                     *)
(***************************************************************************)
\* A local of a scope: its index in the method, and whether GetAddressField1,
\* GetName and ICorDebugILFrame::GetLocalVariable succeed for it.
LocalVar(index, address, name, value) ==
    [index |-> index, address |-> address, name |-> name, value |-> value]
\* The locals declared directly in a scope: none; another local and then local
\* 0; a local whose index cannot be read and then local 0 without a name; local
\* 0 whose value cannot be fetched and then local 0 again.
LocalLists ==
    {<<>>,
     <<LocalVar(1, TRUE, TRUE, TRUE), LocalVar(0, TRUE, TRUE, TRUE)>>,
     <<LocalVar(0, FALSE, TRUE, TRUE), LocalVar(0, TRUE, FALSE, TRUE)>>,
     <<LocalVar(0, TRUE, TRUE, FALSE), LocalVar(0, TRUE, TRUE, TRUE)>>}
LocalIndexes == {0, 1}

\* The scopes of a method are numbered as their declarations open: scope 1 is
\* the root, and the parent of scope i is scope i - 1 or a scope that encloses
\* it.
RECURSIVE Enclosing(_, _)
Enclosing(parent, s) == IF s = 0 THEN {} ELSE {s} \cup Enclosing(parent, parent[s])
ParentMaps(n) ==
    {p \in [1 .. n -> 0 .. (n - 1)] :
        /\ p[1] = 0
        /\ \A i \in 2 .. n : p[i] \in Enclosing(p, i - 1)}
ScopeTrees ==
    UNION {{[parent |-> p, locals |-> l] :
                p \in ParentMaps(n), l \in [1 .. n -> LocalLists]} :
           n \in 1 .. MaxScopes}
ExampleScopes ==
    [parent |-> <<0>>, locals |-> <<<<LocalVar(1, TRUE, TRUE, TRUE),
                                      LocalVar(0, TRUE, TRUE, TRUE)>>>>]
\* pScope->GetChildren: the scopes declared directly in pScope, in declaration
\* order.
Children(t, pScope) ==
    SelectSeq([i \in 1 .. Len(t.parent) |-> i], LAMBDA c : t.parent[c] = pScope)

\* The for loop over pLocals: the first local whose index can be read and is
\* localIndex (0: none).
FirstLocal(locals, localIndex) ==
    LET M == {i \in 1 .. Len(locals) :
                locals[i].address /\ locals[i].index = localIndex}
    IN  IF M = {} THEN 0 ELSE CHOOSE i \in M : \A j \in M : i <= j

\* if (FAILED(pLocals[i]->GetName(...))) swprintf_s(paramName, ..., "local_%d")
NameWritten(nameOk) == IF nameOk THEN "symbol" ELSE "placeholder"

\* if (SUCCEEDED(GetNamedLocalVariable(pChildren[i], ...))) return S_OK;
ChildAlwaysEnds(hr) == TRUE
ChildEnds(hr) == SUCCEEDED(hr)

\* GetNamedLocalVariable(pScope # NULL, ...): the locals of the scope, then
\* its children.  in.fail at in.scope: the GetLocals / GetChildren call that
\* fails.
RECURSIVE GetNamedLocalVariableScope(_, _, _, _, _)
RECURSIVE SearchChildren(_, _, _, _, _, _)
GetNamedLocalVariableScope(x, t, pScope, localIndex, in) ==
    LET a == [x EXCEPT !.local.visited = Append(@, pScope)]
        m == FirstLocal(t.locals[pScope], localIndex)
    IN  IF in.fail = "GetLocals" /\ in.scope = pScope
        THEN [a EXCEPT !.hr = E_UNEXPECTED, !.local.fail = in.fail]
        ELSE IF m # 0
        THEN LET v == t.locals[pScope][m] IN
             [a EXCEPT !.local.found = Append(@, [scope |-> pScope, local |-> m]),
                       !.local.name = NameWritten(v.name),
                       !.local.value = IF v.value THEN "value" ELSE "null",
                       !.hr = IF v.value THEN S_OK ELSE E_FAIL]
        ELSE IF in.fail = "GetChildren" /\ in.scope = pScope
        THEN [a EXCEPT !.hr = E_UNEXPECTED, !.local.fail = in.fail]
        ELSE SearchChildren(a, t, Children(t, pScope), 1, localIndex, in)
SearchChildren(x, t, pChildren, i, localIndex, in) ==
    IF i > Len(pChildren) THEN [x EXCEPT !.hr = E_FAIL]
    ELSE LET c == GetNamedLocalVariableScope(x, t, pChildren[i], localIndex, in) IN
         IF ChildEnds(c.hr) THEN [c EXCEPT !.hr = S_OK]
         ELSE SearchChildren(c, t, pChildren, i + 1, localIndex, in)

\* HRESULT SymbolReader::GetNamedLocalVariable(pScope = NULL, pILFrame,
\*     methodToken, localIndex, paramName, paramNameLen, ppValue)
\* in.delegate: what GetLocalVariableNameDelegate does; in.frame: the frame
\* gives the value (portable path).
GetNamedLocalVariableIn(x, t, localIndex, in) ==
    LET y == [x EXCEPT !.local = [NoLocalQuery EXCEPT !.called = TRUE,
                                                      !.localIndex = localIndex]]
    IN  IF y.reader.m_symbolReaderHandle # 0
        THEN LET z == [y EXCEPT !.local.path = "portable"] IN
             IF in.delegate = "outOfMemory" THEN [z EXCEPT !.hr = E_OUTOFMEMORY]
             ELSE LET w == Invoke(z, "GetLocalVariableName") IN
                  IF w.crashed THEN w
                  ELSE IF in.delegate = "false" THEN [w EXCEPT !.hr = E_FAIL]
                  ELSE [w EXCEPT !.local.name = "symbol",
                                 !.local.value = IF in.frame THEN "value" ELSE "null",
                                 !.hr = IF in.frame THEN S_OK ELSE E_FAIL]
        ELSE IF pal \/ y.reader.m_pSymReader = NULL THEN [y EXCEPT !.hr = E_FAIL]
        ELSE LET z == [y EXCEPT !.local.path = "legacy"] IN
             IF in.fail \in {"GetMethod", "GetRootScope"}
             THEN [z EXCEPT !.hr = E_UNEXPECTED, !.local.fail = in.fail]
             ELSE GetNamedLocalVariableScope(z, t, 1, localIndex, in)

\* The inputs a call reads: the delegate's answer and the frame's on the
\* portable path, the failing reader call on the legacy path.
NoLocalInput == [delegate |-> "false", frame |-> TRUE, fail |-> "none", scope |-> 0]
LocalInputs(x, t) ==
    IF x.reader.m_symbolReaderHandle # 0
    THEN {[NoLocalInput EXCEPT !.delegate = d, !.frame = f] :
            d \in {"outOfMemory", "false", "named"}, f \in BOOLEAN}
    ELSE IF pal \/ x.reader.m_pSymReader = NULL THEN {NoLocalInput}
    ELSE {NoLocalInput}
         \cup {[NoLocalInput EXCEPT !.fail = f] : f \in {"GetMethod", "GetRootScope"}}
         \cup {[NoLocalInput EXCEPT !.fail = f, !.scope = s] :
                 f \in {"GetLocals", "GetChildren"}, s \in 1 .. Len(t.parent)}

\* One lookup is made in a behaviour: a lookup changes nothing that a later
\* one reads.
GetNamedLocalVariable ==
    /\ ~crashed /\ ~last.local.called
    /\ \E localIndex \in LocalIndexes, in \in LocalInputs(Ctx0, scopes) :
        \* a failing reader call is tried in the search for local 0
        /\ in.fail # "none" => localIndex = 0
        /\ LET x == GetNamedLocalVariableIn(Ctx0, scopes, localIndex, in) IN
           Commit("GetNamedLocalVariable", x, x.hr)

(***************************************************************************)
(* DataTarget::ReadVirtual                                                 *)
(***************************************************************************)
\* Target addresses and request sizes (at least one byte is asked for).
Addresses == 0 .. MaxAddress
Requests == 1 .. MaxRequest
\* The metadata regions of the loaded assemblies known at the call: none, or
\* the bytes 1 and 2.
MetadataRegionSets == {{}, {[start |-> 1, size |-> 2]}}

\* bool IsMetadataMemory(address, request): the read [address, address+request)
\* has a byte in a known metadata region.
IsMetadataMemory(regions, address, request) ==
    \E r \in regions :
        address < r.start + r.size /\ r.start < address + request

\* What g_ExtData->ReadVirtual can answer: the bytes read, or a failure.
ServiceOutcomes(request) ==
    {[hr |-> S_OK, done |-> d] : d \in 0 .. request}
    \cup {[hr |-> h, done |-> "untouched"] : h \in ExtFailures}

\* #ifdef FEATURE_PAL  if (g_sos != nullptr)
ChecksMetadataNever(sos) == FALSE
ChecksMetadata(sos) == pal /\ sos

\* HRESULT DataTarget::ReadVirtual(address, buffer, request, done)
\* extData: g_ExtData is set; sos: g_sos is set; out: the service's answer.
ReadVirtualIn(x, extData, sos, regions, address, request, out) ==
    LET r == [NoRead EXCEPT !.called = TRUE, !.extData = extData, !.sos = sos,
                            !.regions = regions, !.address = address,
                            !.request = request]
    IN  IF ~extData THEN [x EXCEPT !.hr = E_UNEXPECTED, !.read = r]
        ELSE IF ChecksMetadata(sos) /\ IsMetadataMemory(regions, address, request)
        THEN [x EXCEPT !.hr = E_ACCESSDENIED, !.read = r]
        ELSE [x EXCEPT
                !.hr = out.hr,
                !.read = [r EXCEPT
                    !.service = <<[address |-> address, request |-> request]>>,
                    !.outcome = out,
                    !.buffer = IF out.hr = S_OK /\ out.done > 0
                               THEN "service" ELSE "untouched",
                    !.done = out.done]]

ReadVirtual ==
    /\ ~crashed
    /\ \E extData \in BOOLEAN, sos \in BOOLEAN, regions \in MetadataRegionSets,
          address \in Addresses, request \in Requests :
       \E out \in ServiceOutcomes(request) :
          LET x == ReadVirtualIn(Ctx0, extData, sos, regions, address, request, out)
          IN  Commit("ReadVirtual", x, x.hr)

(***************************************************************************)
(* AddFilesFromDirectoryToTpaList                                          *)
(***************************************************************************)
\* A file name is its base name followed by its extensions.
AssemblyNames == {"a", "SOS.NETCore"}
Generic(name) == <<name, ".dll">>
Optimized(name) == <<name, ".ni", ".dll">>
FileNames ==
    {Generic(n) : n \in AssemblyNames} \cup {Optimized(n) : n \in AssemblyNames}
    \cup {<<"a", ".txt">>}
\* The entries of a directory in the order FindFirstFileA / FindNextFileA give
\* them; an entry may be a directory.
DirectoryEntries ==
    [name : FileNames, isDir : {FALSE}] \cup {[name |-> Generic("b"), isDir |-> TRUE]}
\* A directory has no two entries of one name.
DirectoryListings ==
    {l \in SeqsUpTo(DirectoryEntries, MaxDirFiles) :
        \A i, j \in 1 .. Len(l) : l[i].name = l[j].name => i = j}

\* tpaExtensions, without the "*".
tpaExtensions == <<<<".ni", ".dll">>, <<".dll">>>>
\* The managed assembly of the extension, loaded by name.
SOSManagedDllName == <<"SOS.NETCore">>

\* FindFirstFileA(directory/*ext): the file name ends with the extension.
MatchesExtension(filename, ext) ==
    /\ Len(filename) >= Len(ext)
    /\ SubSeq(filename, Len(filename) - Len(ext) + 1, Len(filename)) = ext
\* filename.substr(0, filename.length() - extLength)
filenameWithoutExt(filename, ext) == SubSeq(filename, 1, Len(filename) - Len(ext))

\* addedAssemblies.find(filenameWithoutExt) == addedAssemblies.end()
AlwaysNew(addedAssemblies, key) == TRUE
NotAddedYet(addedAssemblies, key) == key \notin addedAssemblies

\* The do / while loop over the entries matching one extension; st is
\* [added, list].
RECURSIVE TpaScan(_, _, _, _, _)
TpaScan(directory, entries, i, ext, st) ==
    IF i > Len(entries) THEN st
    ELSE LET e == entries[i]
             key == filenameWithoutExt(e.name, ext)
         IN  IF MatchesExtension(e.name, ext) /\ ~e.isDir
                /\ NotAddedYet(st.added, key)
             THEN TpaScan(directory, entries, i + 1, ext,
                          [added |-> st.added \cup {key},
                           list |-> Append(st.list, [dir |-> directory,
                                                     file |-> e.name])])
             ELSE TpaScan(directory, entries, i + 1, ext, st)

\* static void AddFilesFromDirectoryToTpaList(directory, tpaList): the set of
\* added assemblies is local to the call.
AddFilesFromDirectoryToTpaList(directory, entries, tpaList) ==
    LET st0 == [added |-> {SOSManagedDllName}, list |-> tpaList]
        st1 == TpaScan(directory, entries, 1, tpaExtensions[1], st0)
        st2 == TpaScan(directory, entries, 1, tpaExtensions[2], st1)
    IN  st2.list

\* InitializeHosting: the list of the extension's directory, then of the
\* hosting runtime's directory.
BuildTpaList(sosEntries, runtimeEntries) ==
    AddFilesFromDirectoryToTpaList(
        "runtime", runtimeEntries,
        AddFilesFromDirectoryToTpaList("sos", sosEntries, <<>>))

\* The bootstrap builds the list from what the two directories hold.
InitializeHostingTpaList ==
    /\ ~crashed
    /\ Commit("InitializeHostingTpaList",
              [Ctx0 EXCEPT !.tpa = [built |-> TRUE,
                                    list |-> BuildTpaList(sosDir, runtimeDir)]],
              S_OK)

(***************************************************************************)
(* SOSInitializeByHost                                                     *)
(***************************************************************************)
\* callbacksSize, in operation slots: a host built against a shorter table, the
\* table of this build, and a longer one.
HostTableSizes == {NumOps - 1, NumOps, NumOps + 1}
\* The hosts: one passes no path, one the scratch directory only, one the
\* companion paths only, one all three; the two that pass a scratch directory
\* have enabled their symbol store.
HostArgs ==
    {a \in [size : HostTableSizes, tempDirectory : {NULL, "hostTemp"},
            dacFilePath : {NULL, "hostDac"}, dbiFilePath : {NULL, "hostDbi"},
            symbolStoreEnabled : BOOLEAN] :
        /\ (a.dacFilePath = NULL) = (a.dbiFilePath = NULL)
        /\ a.symbolStoreEnabled = (a.tempDirectory # NULL)}

\* The slots memcpy_s(&g_SOSNetCoreCallbacks, sizeof, callbacks, callbacksSize)
\* copies.
HostCopiesOneLess(size) == 1 .. (size - 1)
HostCopiedSlots(size) == 1 .. size

\* g_hostingInitialized = true;
HostKeepsHostingFlag(x) == x.init
HostMarksHosting(x) == TRUE

\* extern "C" HRESULT SOSInitializeByHost(callbacks, callbacksSize, tempDirectory,
\*                                        dacFilePath, dbiFilePath, symbolStoreEnabled)
\* memcpy_s fails when callbacksSize exceeds the table; it may then have
\* cleared the destination.
SOSInitializeByHost ==
    /\ ~crashed
    /\ \E a \in HostArgs :
        LET x == Ctx0 IN
        IF a.size > NumOps
        THEN /\ a = [NoHostArgs EXCEPT !.size = a.size]
             /\ \E cleared \in BOOLEAN :
                  CommitHost("SOSInitializeByHost",
                             [x EXCEPT !.table = IF cleared THEN EmptyTable ELSE x.table],
                             E_INVALIDARG, a)
        ELSE CommitHost("SOSInitializeByHost",
                       [x EXCEPT
                          !.table = [i \in 1 .. NumOps |->
                                        IF i \in HostCopiedSlots(a.size) THEN "host"
                                        ELSE x.table[i]],
                          !.tmpPath = IF a.tempDirectory # NULL THEN a.tempDirectory ELSE @,
                          !.dac = IF a.dacFilePath # NULL THEN a.dacFilePath ELSE @,
                          !.dbi = IF a.dbiFilePath # NULL THEN a.dbiFilePath ELSE @,
                          !.enabled = a.symbolStoreEnabled,
                          !.init = HostMarksHosting(x)],
                       S_OK, a)

(***************************************************************************)
(* Initial state and specifications                                        *)
(***************************************************************************)
InitProgram ==
    /\ curThread = 0
    /\ tc = [c \in Callers |-> TcIdle]
    /\ m_ref = 0
    /\ rc = [t \in RefThreads |-> RcIdle]
    /\ everReferenced = FALSE
    /\ destroyed = 0
    /\ deleters = {}
    /\ g_tmpPath = NULL
    /\ scratch = [exists |-> FALSE, files |-> 0, subdirs |-> 0]
    /\ sd = [s \in ShutdownCallers |-> SdIdle]
    /\ tmpSets = 0
    /\ obtains = 0
    /\ cleanups = 0
    /\ shutdownCalls = 0
    /\ g_symbolStoreInitialized = FALSE
    /\ g_hostRuntimeDirectory = NoDirectory
    /\ g_dacFilePath = NULL
    /\ g_dbiFilePath = NULL
    /\ crashed = FALSE
    /\ pathInitialized = FALSE
    /\ last = LastNone

\* No bootstrap has run and no symbols are loaded.
InitBridge ==
    /\ g_hostingInitialized = FALSE
    /\ callbacks = EmptyTable
    /\ reader = NoReader
    /\ bootRuns = 0
    /\ runtimeStarts = 0

\* The symbols of the example method and document.
InitExample ==
    /\ pdb = ExampleTable
    /\ docs = <<SrcFooCs>>
    /\ pFilename = FooCs

\* The specifications that look up no local variable read one scope.
InitScopes == scopes = ExampleScopes

\* The specifications that build no trusted-assembly list read no directory,
\* and they look up no local variable.
InitDirectories ==
    /\ sosDir = <<>>
    /\ runtimeDir = <<>>
    /\ InitScopes

Init ==
    /\ pal \in BOOLEAN
    /\ machine \in TypicalMachines(pal)
    /\ InitExample
    /\ InitDirectories
    /\ InitProgram
    /\ InitBridge

\* Any installation.
InitAnyMachine ==
    /\ pal \in BOOLEAN
    /\ machine \in Machines(pal)
    /\ InitExample
    /\ InitDirectories
    /\ InitProgram
    /\ InitBridge

\* A SymbolReader after LoadSymbols: nothing loaded, a Windows PDB bound by the
\* legacy reader (dbgeng build), or a portable PDB opened by the bridge after
\* a bootstrap.
InitReaderBound ==
    /\ pal \in BOOLEAN
    /\ machine = [root |-> "usr-share-dotnet", listing |-> <<>>]
    /\ InitDirectories
    /\ InitProgram
    /\ \/ InitBridge
       \/ /\ ~pal
          /\ g_hostingInitialized = FALSE /\ callbacks = EmptyTable
          /\ reader = [NoReader EXCEPT !.m_pSymReader = "legacy"]
          /\ bootRuns = 0 /\ runtimeStarts = 0
       \/ /\ g_hostingInitialized = TRUE
          /\ callbacks = [i \in 1 .. NumOps |-> "clr"]
          /\ reader = [NoReader EXCEPT !.m_symbolReaderHandle = 1]
          /\ bootRuns = 1 /\ runtimeStarts = 1

\* The method has any sequence-point table.
InitSymbolReader ==
    /\ InitReaderBound
    /\ pdb \in SequencePointTables
    /\ docs = <<SrcFooCs>>
    /\ pFilename = FooCs

\* GetThreadContext, one call at a time (every command runs to completion on
\* the thread that issued it).
NextThreadContext ==
    \/ /\ \E c \in Callers : NoCallInProgress /\ GTC_Begin(c)
       /\ UNCHANGED <<pal, machine, inputVars, rcVars, sdVars, hostVars>>
    \/ /\ \E c \in Callers : GTC_GetCurrent(c)
       /\ UNCHANGED <<pal, machine, inputVars, rcVars, sdVars, hostVars>>
    \/ /\ \E c \in Callers : GTC_Lookup(c)
       /\ UNCHANGED <<pal, machine, inputVars, rcVars, sdVars, hostVars>>
    \/ /\ \E c \in Callers : GTC_Switch(c)
       /\ UNCHANGED <<pal, machine, inputVars, rcVars, sdVars, hostVars>>
    \/ /\ \E c \in Callers : GTC_Fetch(c)
       /\ UNCHANGED <<pal, machine, inputVars, rcVars, sdVars, hostVars>>
    \/ /\ \E c \in Callers : GTC_Restore(c)
       /\ UNCHANGED <<pal, machine, inputVars, rcVars, sdVars, hostVars>>
    \/ /\ \E c \in Callers : GTC_Finish(c)
       /\ UNCHANGED <<pal, machine, inputVars, rcVars, sdVars, hostVars>>
    \/ /\ UserSelectsThread
       /\ UNCHANGED <<pal, machine, inputVars, rcVars, sdVars, hostVars>>

SpecThreadContext == Init /\ [][NextThreadContext]_vars

\* GetThreadContext called from two threads at once: the function takes no
\* lock, so the calls made on the engine by one call fall anywhere between
\* those of the other.
NextThreadContextInterleaved ==
    \/ /\ \E c \in Callers : GTC_Begin(c)
       /\ UNCHANGED <<pal, machine, inputVars, rcVars, sdVars, hostVars>>
    \/ /\ \E c \in Callers : GTC_GetCurrent(c)
       /\ UNCHANGED <<pal, machine, inputVars, rcVars, sdVars, hostVars>>
    \/ /\ \E c \in Callers : GTC_Lookup(c)
       /\ UNCHANGED <<pal, machine, inputVars, rcVars, sdVars, hostVars>>
    \/ /\ \E c \in Callers : GTC_Switch(c)
       /\ UNCHANGED <<pal, machine, inputVars, rcVars, sdVars, hostVars>>
    \/ /\ \E c \in Callers : GTC_Fetch(c)
       /\ UNCHANGED <<pal, machine, inputVars, rcVars, sdVars, hostVars>>
    \/ /\ \E c \in Callers : GTC_Restore(c)
       /\ UNCHANGED <<pal, machine, inputVars, rcVars, sdVars, hostVars>>
    \/ /\ \E c \in Callers : GTC_Finish(c)
       /\ UNCHANGED <<pal, machine, inputVars, rcVars, sdVars, hostVars>>

SpecThreadContextInterleaved == Init /\ [][NextThreadContextInterleaved]_vars

\* AddRef and Release from any thread, in any interleaving.
NextRefCount ==
    \/ /\ \E t \in RefThreads : AddRef(t)
       /\ UNCHANGED <<pal, machine, inputVars, tcVars, sdVars, hostVars>>
    \/ /\ \E t \in RefThreads : ReleaseDecrement(t)
       /\ UNCHANGED <<pal, machine, inputVars, tcVars, sdVars, hostVars>>
    \/ /\ \E t \in RefThreads : ReleaseFinish(t)
       /\ UNCHANGED <<pal, machine, inputVars, tcVars, sdVars, hostVars>>

SpecRefCount == Init /\ [][NextRefCount]_vars

\* The scratch directory: created on demand, cleaned by SOSShutdown from the
\* normal shutdown path and from the process-exit handler.
NextShutdown ==
    \/ /\ GetTempDirectory
       /\ UNCHANGED <<pal, machine, inputVars, tcVars, rcVars, hostVars>>
    \/ /\ ScratchAddFile
       /\ UNCHANGED <<pal, machine, inputVars, tcVars, rcVars, hostVars>>
    \/ /\ ScratchAddSubdir
       /\ UNCHANGED <<pal, machine, inputVars, tcVars, rcVars, hostVars>>
    \/ /\ \E s \in ShutdownCallers : SD_Exchange(s)
       /\ UNCHANGED <<pal, machine, inputVars, tcVars, rcVars, hostVars>>
    \/ /\ \E s \in ShutdownCallers : SD_Cleanup(s)
       /\ UNCHANGED <<pal, machine, inputVars, tcVars, rcVars, hostVars>>
    \/ /\ \E s \in ShutdownCallers : SD_Return(s)
       /\ UNCHANGED <<pal, machine, inputVars, tcVars, rcVars, hostVars>>

SpecShutdown == Init /\ [][NextShutdown]_vars

\* GetTempDirectory calls and SOSShutdown calls in any order.
NextTempDirectory ==
    \/ GetTempDirectoryCall /\ UNCHANGED <<pal, machine, inputVars, tcVars, rcVars>>
    \/ /\ \E s \in ShutdownCallers : SD_Exchange(s)
       /\ ShutdownStep
       /\ UNCHANGED <<pal, machine, inputVars, tcVars, rcVars>>
    \/ /\ \E s \in ShutdownCallers : SD_Cleanup(s)
       /\ ShutdownStep
       /\ UNCHANGED <<pal, machine, inputVars, tcVars, rcVars>>
    \/ /\ \E s \in ShutdownCallers : SD_Return(s)
       /\ ShutdownStep
       /\ UNCHANGED <<pal, machine, inputVars, tcVars, rcVars>>

SpecTempDirectory == Init /\ [][NextTempDirectory]_vars

\* The hosting bridge and the symbol store: each command runs to completion.
HostUnchanged == UNCHANGED <<pal, machine, inputVars, tcVars, rcVars>>
NextHosting ==
    \/ InitializeHostingCall /\ HostUnchanged
    \/ GetMetadata /\ HostUnchanged
    \/ InitializeSymbolStore5 /\ HostUnchanged
    \/ DisableSymbolStore /\ HostUnchanged
    \/ LoadSymbols /\ HostUnchanged
    \/ SOSInitializeByHost /\ HostUnchanged

SpecHosting == Init /\ [][NextHosting]_vars

\* Native symbols and the companion libraries, under a host that has
\* initialized the bridge.
NextNativeSymbols ==
    \/ SOSInitializeByHost /\ HostUnchanged
    \/ DisableSymbolStore /\ HostUnchanged
    \/ LoadNativeSymbols /\ HostUnchanged
    \/ GetDacFilePath /\ HostUnchanged
    \/ GetDbiFilePath /\ HostUnchanged

SpecNativeSymbols == Init /\ [][NextNativeSymbols]_vars

\* The commands that set, clear or test g_symbolStoreInitialized and call a
\* bound operation themselves, in any order.  LoadNativeSymbols, GetDacFilePath
\* and GetDbiFilePath, which only test the flag, run with the host's
\* initialization and the disabling in SpecNativeSymbols.
NextSymbolStore ==
    \/ GetMetadata /\ HostUnchanged
    \/ LoadSymbols /\ HostUnchanged
    \/ InitializeSymbolStore5 /\ HostUnchanged
    \/ DisplaySymbolStore /\ HostUnchanged
    \/ DisableSymbolStore /\ HostUnchanged
    \/ SOSInitializeByHost /\ HostUnchanged

SpecSymbolStore == Init /\ [][NextSymbolStore]_vars

\* The installation changes between two commands: an entry appears in the
\* install root, or the oldest entry is removed.
InstallRuntime ==
    /\ \/ /\ Len(machine.listing) < MaxListing
          /\ \E e \in [name : EntryNames, isDir : BOOLEAN] :
               /\ \A i \in 1 .. Len(machine.listing) : machine.listing[i].name # e.name
               /\ machine' = [machine EXCEPT !.listing = Append(@, e)]
       \/ /\ machine.listing # <<>>
          /\ machine' = [machine EXCEPT !.listing = Tail(@)]
    /\ last' = [LastNone EXCEPT !.op = "InstallRuntime"]
    /\ UNCHANGED <<pal, inputVars, tcVars, rcVars, sdVars, g_hostingInitialized,
                   g_symbolStoreInitialized, g_hostRuntimeDirectory, g_dacFilePath,
                   g_dbiFilePath, callbacks, reader, bootRuns, runtimeStarts, crashed,
                   pathInitialized>>

\* GetHostRuntime(coreClrPath, hostRuntimeDirectory) called on its own: what
\* an InitializeHosting call that fails after it leaves behind.
GetHostRuntimeCall ==
    /\ ~crashed
    /\ \E o \in GetHostRuntimeOutcomes :
        Commit("GetHostRuntime",
               [Ctx0 EXCEPT !.dir = IF SUCCEEDED(o.hr) THEN o.dir ELSE @,
                            !.boot.probed = o.probed],
               o.hr)

\* GetHostRuntime on any installation.
NextRuntimeLocator ==
    \/ GetHostRuntimeCall /\ HostUnchanged
    \/ InstallRuntime

SpecRuntimeLocator == InitAnyMachine /\ [][NextRuntimeLocator]_vars

\* GetLineByILOffset on every reader and table.
NextSequencePoints == GetLineByILOffset /\ HostUnchanged

SpecSequencePoints == InitSymbolReader /\ [][NextSequencePoints]_vars

\* The reader has any documents and any file name is asked for.
InitDocuments ==
    /\ InitReaderBound
    /\ pdb = ExampleTable
    /\ IF ~pal /\ reader.m_pSymReader # NULL
       THEN docs \in DocumentLists /\ pFilename \in Filenames
       ELSE docs = <<SrcFooCs>> /\ pFilename = FooCs

\* ResolveSequencePoint on every reader, document list and file name.
NextResolve == ResolveSequencePoint /\ HostUnchanged

SpecResolve == InitDocuments /\ [][NextResolve]_vars

\* The method has any scope tree.
InitLocalScopes ==
    /\ pal \in BOOLEAN
    /\ machine = [root |-> "usr-share-dotnet", listing |-> <<>>]
    /\ InitExample
    /\ sosDir = <<>> /\ runtimeDir = <<>>
    /\ InitProgram
    /\ \/ InitBridge /\ scopes = ExampleScopes
       \/ /\ ~pal
          /\ g_hostingInitialized = FALSE /\ callbacks = EmptyTable
          /\ reader = [NoReader EXCEPT !.m_pSymReader = "legacy"]
          /\ bootRuns = 0 /\ runtimeStarts = 0
          /\ scopes \in ScopeTrees
       \/ /\ g_hostingInitialized = TRUE
          /\ callbacks = [i \in 1 .. NumOps |-> "clr"]
          /\ reader = [NoReader EXCEPT !.m_symbolReaderHandle = 1]
          /\ bootRuns = 1 /\ runtimeStarts = 1
          /\ scopes = ExampleScopes

\* GetNamedLocalVariable on every reader and scope tree.
NextLocalVariable == GetNamedLocalVariable /\ HostUnchanged

SpecLocalVariable == InitLocalScopes /\ [][NextLocalVariable]_vars

\* The symbol downloader reports files in any order.
NextSymbolFile == SymbolFileCallbackCall /\ HostUnchanged

SpecSymbolFile == Init /\ [][NextSymbolFile]_vars

\* The two directories hold any files.
InitAnyDirectories ==
    /\ pal \in BOOLEAN
    /\ machine = [root |-> "usr-share-dotnet", listing |-> <<>>]
    /\ InitExample
    /\ sosDir \in DirectoryListings /\ runtimeDir \in DirectoryListings
    /\ InitScopes
    /\ InitProgram
    /\ InitBridge

\* The trusted-assembly list for any content of the two directories.
NextTpaList == InitializeHostingTpaList /\ HostUnchanged

SpecTpaList == InitAnyDirectories /\ [][NextTpaList]_vars

\* The DAC reads target memory through the data target.
NextReadVirtual == ReadVirtual /\ HostUnchanged

SpecReadVirtual == Init /\ [][NextReadVirtual]_vars

(***************************************************************************)
(* Properties of DataTarget::GetThreadContext (SpecThreadContext)          *)
(***************************************************************************)
GtcReturned(c) == ~pal /\ tc[c].pc = "done"

\* C1, as stated: on the single-current-thread path, whenever GetThreadContext
\* has returned, with success or with any failure, the debugger's current
\* thread is the one that was current before the call.
C1_RestoredOnEveryReturn ==
    \A c \in Callers : GtcReturned(c) => curThread = tc[c].before

\* C1, amended: once the switch succeeded the restore of the original thread is
\* always attempted, whatever the fetch returned; when GetThreadContext has
\* returned, the current thread is the one from before the call unless that
\* restoring SetCurrentThreadId call itself failed, and then it is still the
\* requested thread.
C1_RestoredUnlessRestoreFails ==
    \A c \in Callers :
        GtcReturned(c) =>
            /\ tc[c].switched <=> tc[c].restore # "none"
            /\ tc[c].restore # "failed" => curThread = tc[c].before
            /\ tc[c].restore = "failed" => curThread = tc[c].req

\* A fetch failed on another thread than the original one, and the original
\* thread was restored.
C1_Witness ==
    \E c \in Callers :
        /\ GtcReturned(c)
        /\ tc[c].switched /\ tc[c].req # tc[c].before
        /\ FAILED(tc[c].fetchHr)
        /\ tc[c].restore = "ok"
        /\ curThread = tc[c].before

\* C2: once the switch to the requested thread succeeded, GetThreadContext
\* returns exactly the result of the context fetch, whether the restore of the
\* original thread succeeded or failed.
C2_ReturnsFetchResult ==
    \A c \in Callers :
        (GtcReturned(c) /\ tc[c].switched) => tc[c].ret = tc[c].fetchHr

\* The fetch succeeded, the restore failed, and the call returned success.
C2_Witness ==
    \E c \in Callers :
        /\ GtcReturned(c)
        /\ tc[c].switched
        /\ tc[c].restore = "failed"
        /\ tc[c].fetchHr = S_OK
        /\ tc[c].ret = S_OK

(***************************************************************************)
(* Properties of DataTarget::Release (SpecRefCount)                        *)
(***************************************************************************)
\* C3: however the Release calls of the holders interleave, the object is
\* destroyed at most once, only by a Release whose decrement returned zero,
\* never while a reference is left, and exactly once when every reference has
\* been released.
C3_DestroyedExactlyOnce ==
    /\ destroyed <= 1
    /\ destroyed = Cardinality(deleters)
    /\ \A d \in deleters : d.ref = 0
    /\ destroyed = 1 => m_ref = 0
    /\ (everReferenced /\ m_ref = 0 /\ \A t \in RefThreads : rc[t].pc = "idle")
            => destroyed = 1

\* Two Release calls are between their decrement and their test, one having
\* seen zero and the other not; and later the object is destroyed.
C3_Witness ==
    /\ destroyed = 1
    /\ \E t1, t2 \in RefThreads :
        /\ t1 # t2
        /\ rc[t1].pc = "dec" /\ rc[t1].ref # 0
        /\ rc[t2].pc = "idle" /\ rc[t2].ref = 0
        /\ [thread |-> t2, ref |-> 0] \in deleters

(***************************************************************************)
(* Properties of SOSShutdown (SpecShutdown)                                *)
(***************************************************************************)
\* C4: every scratch path recorded is obtained by exactly one SOSShutdown call,
\* which runs the cleanup pass (file deletion and directory removal) once; a
\* call that saw a null path performs no filesystem operation.
C4_CleanupExactlyOnce ==
    /\ obtains = tmpSets - (IF g_tmpPath # NULL THEN 1 ELSE 0)
    /\ cleanups = obtains - Cardinality({s \in ShutdownCallers : sd[s].pc = "cleanup"})
    /\ \A s \in ShutdownCallers :
        sd[s].pc = "done" =>
            /\ sd[s].tmpPath = NULL => sd[s].fsOps = 0
            /\ sd[s].tmpPath # NULL => sd[s].fsOps = 1

\* Two calls for one scratch directory: the second made its exchange while
\* the first was still cleaning up, and saw null.
C4_Witness ==
    /\ tmpSets = 1
    /\ \E s1, s2 \in ShutdownCallers :
        /\ sd[s1].pc = "cleanup" /\ sd[s1].tmpPath # NULL
        /\ sd[s2].pc = "done" /\ sd[s2].tmpPath = NULL /\ sd[s2].fsOps = 0

(***************************************************************************)
(* Properties of the hosting bridge (SpecHosting)                          *)
(***************************************************************************)
HostingCallers == {"InitializeHosting", "GetMetadata", "InitializeSymbolStore5",
                   "LoadSymbols"}
InvokedOps(l) == {l.invoked[i] : i \in 1 .. Len(l.invoked)}

\* C5: a GetMetadata call in the never-bootstrapped state runs the bootstrap
\* once (directory discovery first; library load, runtime start and the ten
\* bindings when it succeeds); a GetMetadata call made when the bridge is
\* initialized runs no part of the bootstrap and goes to the bound
\* metadata-locator operation.
C5_BootstrapOnce ==
    [][
        last'.op = "GetMetadata" =>
            /\ (~g_hostingInitialized /\ bootRuns = 0) =>
                  /\ bootRuns' = 1
                  /\ last'.boot.ran /\ last'.boot.probed
                  /\ SUCCEEDED(last'.boot.hr) =>
                        /\ last'.boot.loaded /\ last'.boot.startOk
                        /\ last'.boot.binds = NumOps
                        /\ runtimeStarts' = 1
                        /\ g_hostingInitialized'
            /\ g_hostingInitialized =>
                  /\ bootRuns' = bootRuns /\ runtimeStarts' = runtimeStarts
                  /\ ~last'.boot.ran /\ ~last'.boot.probed /\ ~last'.boot.loaded
                  /\ ~last'.boot.started /\ last'.boot.binds = 0
                  /\ g_hostRuntimeDirectory' = g_hostRuntimeDirectory
                  /\ ~crashed' => "GetMetadataLocator" \in InvokedOps(last')
    ]_vars

\* A second request reuses the table bound by the one bootstrap.
C5_Witness ==
    /\ last.op = "GetMetadata"
    /\ last.boot.called /\ ~last.boot.ran
    /\ bootRuns = 1 /\ runtimeStarts = 1
    /\ \A i \in 1 .. NumOps : callbacks[i] = "clr"
    /\ "GetMetadataLocator" \in InvokedOps(last)

\* C6: the initialized flag starts false, turns true only in SOSInitializeByHost
\* or at the end of an InitializeHosting run in which every step succeeded, and
\* is never set back to false.
C6_FlagOnlyOnFullSuccess ==
    /\ ~g_hostingInitialized
    /\ [][
          /\ g_hostingInitialized => g_hostingInitialized'
          /\ (~g_hostingInitialized /\ g_hostingInitialized') =>
                \/ last'.op = "SOSInitializeByHost" /\ last'.hr = S_OK
                \/ /\ last'.op \in HostingCallers
                   /\ last'.boot.ran /\ last'.boot.failAt = "none"
                   /\ last'.boot.loaded /\ last'.boot.startOk
                   /\ last'.boot.binds = NumOps
                   /\ SUCCEEDED(last'.boot.hr)
       ]_vars

\* The flag was set by a complete bootstrap.
C6_Witness ==
    /\ g_hostingInitialized
    /\ last.op = "InitializeHosting"
    /\ last.boot.ran /\ last.boot.binds = NumOps

\* C7: after a failed InitializeHosting run the flag is false, and the next
\* call that reaches InitializeHosting runs the bootstrap again; when every
\* step of that run succeeds it returns success and sets the flag.
C7_FailedBootstrapRetried ==
    /\ [](last.boot.ran /\ FAILED(last.boot.hr) => ~g_hostingInitialized)
    /\ [][
          (last.boot.ran /\ FAILED(last.boot.hr) /\ last'.boot.called) =>
              /\ last'.boot.ran
              /\ bootRuns' = bootRuns + 1
              /\ last'.boot.failAt = "none" =>
                    g_hostingInitialized' /\ SUCCEEDED(last'.boot.hr)
              /\ last'.boot.failAt # "none" =>
                    ~g_hostingInitialized' /\ FAILED(last'.boot.hr)
       ]_vars

\* The second run of the bootstrap succeeded after the first had failed.
C7_Witness ==
    /\ bootRuns = 2
    /\ last.boot.ran /\ last.boot.failAt = "none"
    /\ g_hostingInitialized

\* C8: when the bridge is not initialized and the bootstrap fails, GetMetadata,
\* the five-argument InitializeSymbolStore and LoadSymbols return that failure,
\* invoke no operation of the table and leave the symbol-store enabled flag
\* and the reader's binding as they were.
C8_FailedBootstrapBlocks ==
    [][
        (/\ last'.op \in {"GetMetadata", "InitializeSymbolStore5", "LoadSymbols"}
         /\ last'.boot.ran /\ FAILED(last'.boot.hr)) =>
            /\ FAILED(last'.hr) /\ last'.hr = last'.boot.hr
            /\ last'.invoked = <<>>
            /\ ~crashed'
            /\ g_symbolStoreInitialized' = g_symbolStoreInitialized
            /\ reader' = reader
            /\ callbacks'[SlotOf("GetMetadataLocator")] = callbacks[SlotOf("GetMetadataLocator")]
    ]_vars

\* On the build where InitializeSymbolStore() would enable the store,
\* GetMetadata failed in the bootstrap and the store is still disabled.
C8_Witness ==
    /\ ~pal
    /\ last.op = "GetMetadata"
    /\ last.boot.ran /\ FAILED(last.boot.hr)
    /\ last.invoked = <<>>
    /\ ~g_symbolStoreInitialized

BootstrapFailedInGetMetadata ==
    last.op = "GetMetadata" /\ last.boot.ran /\ last.boot.failAt # "none"

\* C9, as stated: whenever the bridge cannot be initialized, GetMetadata
\* returns E_UNEXPECTED.
C9_ReturnsUnexpected ==
    BootstrapFailedInGetMetadata => last.hr = E_UNEXPECTED

\* C9, amended: whenever the bridge cannot be initialized, GetMetadata returns
\* the failure code InitializeHosting produced: E_FAIL when the module
\* directory, the library load, the entry-point lookup or the executable path
\* fails, and the failing call's own HRESULT when directory resolution, the
\* runtime start or a binding fails.
C9_ReturnsBootstrapFailure ==
    BootstrapFailedInGetMetadata =>
        /\ FAILED(last.hr)
        /\ last.hr = last.boot.code
        /\ last.boot.failAt \in {"sosdir", "load", "entry", "exe"} => last.hr = E_FAIL

\* The library load failed and GetMetadata returned E_FAIL.
C9_Witness ==
    /\ BootstrapFailedInGetMetadata
    /\ last.boot.failAt = "load"
    /\ last.hr = E_FAIL

ByHostSucceeded == last.op = "SOSInitializeByHost" /\ last.hr = S_OK

\* C10, as stated: after SOSInitializeByHost returned success the whole
\* operation table is the caller's.
C10_TableIsCallers ==
    ByHostSucceeded => \A i \in 1 .. NumOps : callbacks[i] = "host"

\* C10, amended: after SOSInitializeByHost returned success the flag is true,
\* the operation table holds the caller's table in the callbacksSize bytes
\* supplied (the slots beyond keep their previous values), each non-null
\* scratch directory and companion path supplied is the recorded one, and every
\* later InitializeHosting call returns success without running the bootstrap.
C10_HostInitialization ==
    [][
        /\ (last'.op = "SOSInitializeByHost" /\ last'.hr = S_OK) =>
              /\ g_hostingInitialized'
              /\ \A i \in 1 .. NumOps :
                    callbacks'[i] = IF i <= last'.host.size THEN "host" ELSE callbacks[i]
              /\ last'.host.tempDirectory # NULL => g_tmpPath' = last'.host.tempDirectory
              /\ last'.host.dacFilePath # NULL => g_dacFilePath' = last'.host.dacFilePath
              /\ last'.host.dbiFilePath # NULL => g_dbiFilePath' = last'.host.dbiFilePath
              /\ g_symbolStoreInitialized' = last'.host.symbolStoreEnabled
        /\ (g_hostingInitialized /\ last'.boot.called) =>
              /\ ~last'.boot.ran /\ last'.boot.hr = S_OK
              /\ bootRuns' = bootRuns /\ runtimeStarts' = runtimeStarts
              /\ g_hostingInitialized'
    ]_vars

\* A host built against a shorter table initialized the bridge, and a later
\* InitializeHosting call returned success without any bootstrap run.
C10_Witness ==
    /\ last.op = "InitializeHosting"
    /\ last.boot.called /\ ~last.boot.ran /\ last.hr = S_OK
    /\ bootRuns = 0
    /\ g_hostingInitialized
    /\ callbacks[NumOps - 1] = "host" /\ callbacks[NumOps] = NULL
    /\ g_tmpPath = "hostTemp" /\ g_dacFilePath = "hostDac"

\* C11: the five-argument InitializeSymbolStore sets the enabled flag only when
\* InitializeHosting succeeded and the initialize operation, which it then
\* invoked, returned true; in every other case it returns a failure and the
\* enabled flag is what it was before the call.
C11_EnabledOnlyOnSuccess ==
    [][
        last'.op = "InitializeSymbolStore5" =>
            /\ last'.hr = S_OK =>
                  /\ SUCCEEDED(last'.boot.hr)
                  /\ last'.invoked = <<"InitializeSymbolStore">>
                  /\ g_symbolStoreInitialized'
            /\ last'.hr # S_OK =>
                  /\ crashed' \/ FAILED(last'.hr)
                  /\ g_symbolStoreInitialized' = g_symbolStoreInitialized
            /\ FAILED(last'.boot.hr) => last'.hr = last'.boot.hr /\ last'.invoked = <<>>
    ]_vars

\* The bootstrap succeeded, the initialize operation reported failure, and the
\* store is still disabled.
C11_Witness ==
    /\ last.op = "InitializeSymbolStore5"
    /\ last.boot.ran /\ SUCCEEDED(last.boot.hr)
    /\ last.invoked = <<"InitializeSymbolStore">>
    /\ last.hr = E_FAIL
    /\ ~g_symbolStoreInitialized

\* C12, as stated: over any sequence of operations, InitializeSymbolStore()
\* passes the debugger's search path to the initialize operation at most once
\* in the process.
C12_PathPassedAtMostOnce ==
    last.symInit # "again"

\* C13: DisableSymbolStore on an enabled store clears the flag and invokes the
\* disable operation once, also when DisableSymbolStore is called again while
\* that operation runs; on a disabled store it invokes nothing and changes
\* nothing.
C13_DisableInvokedOnce ==
    [][
        last'.op = "DisableSymbolStore" =>
            /\ ~g_symbolStoreInitialized'
            /\ g_symbolStoreInitialized =>
                  crashed' \/ last'.invoked = <<"DisableSymbolStore">>
            /\ ~g_symbolStoreInitialized =>
                  /\ last'.invoked = <<>> /\ ~crashed'
                  /\ callbacks' = callbacks /\ reader' = reader
    ]_vars

\* The disable operation called DisableSymbolStore again and was invoked once.
C13_Witness ==
    /\ last.op = "DisableSymbolStore"
    /\ last.reentered
    /\ last.invoked = <<"DisableSymbolStore">>
    /\ ~g_symbolStoreInitialized

\* The modules the operation is to be invoked for: all native modules, or
\* the runtime's module only.
EnumeratesAllModules(runtimeOnly, modules) ==
    IF runtimeOnly THEN SelectSeq(modules, LAMBDA n : n = "coreclr") ELSE modules

\* C14 as stated: LoadNativeSymbols on a disabled store returns success and
\* invokes nothing; on an enabled store it invokes the load-native-symbols
\* operation once per module, for all native modules when runtimeOnly is false
\* and for the runtime's module only when it is true.
C14_OncePerNativeModule ==
    [][
        (last'.op = "LoadNativeSymbols" /\ ~crashed') =>
            IF ~g_symbolStoreInitialized
            THEN last'.hr = S_OK /\ last'.invoked = <<>>
            ELSE SUCCEEDED(last'.native.lookup) =>
                    last'.invoked =
                        [i \in 1 .. Len(EnumeratesAllModules(last'.native.runtimeOnly,
                                                             last'.native.modules))
                            |-> "LoadNativeSymbols"]
    ]_vars

\* C14: LoadNativeSymbols on a disabled store returns success, invokes nothing
\* and changes nothing. On an enabled store the FEATURE_PAL build invokes the
\* load-native-symbols operation once per module the debugger services
\* enumerate (all native modules, or the runtime's module only when
\* runtimeOnly) and returns their result; the dbgeng build invokes it once for
\* the runtime's module when runtimeOnly is true and the module is found,
\* invokes nothing when runtimeOnly is false, and returns success in every
\* case. The flag is left as it was.
C14_OncePerEnumeratedModule ==
    [][
        (last'.op = "LoadNativeSymbols" /\ ~crashed') =>
            /\ g_symbolStoreInitialized' = g_symbolStoreInitialized
            /\ IF ~g_symbolStoreInitialized
               THEN /\ last'.hr = S_OK /\ last'.invoked = <<>>
                    /\ g_dacFilePath' = g_dacFilePath /\ g_dbiFilePath' = g_dbiFilePath
                    /\ g_tmpPath' = g_tmpPath
               ELSE /\ last'.invoked =
                        [i \in 1 .. (IF FAILED(last'.native.lookup) THEN 0
                                     ELSE IF last'.native.runtimeOnly \/ pal
                                          THEN Len(EnumeratesAllModules(
                                                       last'.native.runtimeOnly,
                                                       last'.native.modules))
                                          ELSE 0)
                            |-> "LoadNativeSymbols"]
                    /\ last'.hr = IF pal THEN last'.native.lookup ELSE S_OK
    ]_vars

\* An enabled store, all native modules asked for, and the operation invoked
\* for each of two modules.
C14_Witness ==
    /\ last.op = "LoadNativeSymbols"
    /\ last.native.enabled /\ ~last.native.runtimeOnly
    /\ Len(last.native.modules) = 2
    /\ last.invoked = <<"LoadNativeSymbols", "LoadNativeSymbols">>
    /\ ~crashed

CompanionCallers == {"GetDacFilePath", "GetDbiFilePath"}
RecordedBefore == IF last'.op = "GetDacFilePath" THEN g_dacFilePath ELSE g_dbiFilePath
RecordedAfter == IF last'.op = "GetDacFilePath" THEN g_dacFilePath' ELSE g_dbiFilePath'
CompanionOf(op) == IF op = "GetDacFilePath" THEN "mscordaccore" ELSE "mscordbi"
\* What a runtime-only pass records for the companion.
PassRecords(l) ==
    /\ l.native.enabled /\ SUCCEEDED(l.native.lookup)
    /\ \E i \in 1 .. Len(l.native.modules) : l.native.modules[i] = "coreclr"
    /\ CompanionOf(l.op) \in l.native.found

\* C15 as stated: GetDacFilePath and GetDbiFilePath, with no path recorded and
\* the companion absent from the runtime directory, run a runtime-only pass
\* and return what it recorded, or null.
C15_AbsentRunsPass ==
    [][
        (/\ last'.op \in CompanionCallers /\ ~crashed'
         /\ RecordedBefore = NULL /\ ~last'.probe.exists) =>
            /\ last'.native.called /\ last'.native.runtimeOnly
            /\ last'.hr = RecordedAfter
            /\ last'.hr \in {NULL, "downloadedDac", "downloadedDbi"}
    ]_vars

\* C15: GetDacFilePath and GetDbiFilePath return the recorded path or null and
\* never a failure. A path recorded earlier is returned as it is. Otherwise,
\* when the runtime directory is known and (FEATURE_PAL build) the companion
\* exists in it, the path in that directory, or the symlink to it, is recorded
\* and returned without a pass; the dbgeng build does not test that the file
\* exists. When that leaves no path, they run a runtime-only pass and return
\* the path it recorded, or null when it recorded none, as it does on a
\* disabled store.
C15_PathOrNull ==
    [][
        (last'.op \in CompanionCallers /\ ~crashed') =>
            /\ last'.hr = RecordedAfter
            /\ RecordedBefore # NULL =>
                  /\ RecordedAfter = RecordedBefore
                  /\ ~last'.native.called /\ last'.invoked = <<>>
            /\ RecordedBefore = NULL =>
                  IF SUCCEEDED(last'.probe.dirHr) /\ (~pal \/ last'.probe.exists)
                  THEN /\ ~last'.native.called /\ last'.invoked = <<>>
                       /\ last'.hr \in {"runtimeDac", "runtimeDbi", "symlinkDac"}
                  ELSE /\ last'.native.called /\ last'.native.runtimeOnly
                       /\ last'.native.enabled = g_symbolStoreInitialized
                       /\ ~g_symbolStoreInitialized => last'.invoked = <<>>
                       /\ last'.hr = IF PassRecords(last')
                                     THEN (IF last'.op = "GetDacFilePath"
                                           THEN "downloadedDac" ELSE "downloadedDbi")
                                     ELSE NULL
    ]_vars

\* The companion was absent, the pass ran on an enabled store and its path
\* was returned.
C15_Witness ==
    /\ last.op = "GetDbiFilePath"
    /\ ~last.probe.recorded /\ ~last.probe.exists
    /\ last.native.called /\ last.native.enabled
    /\ last.hr = "downloadedDbi" /\ g_dbiFilePath = "downloadedDbi"

\* The pass ran on a disabled store and null was returned.
C15_DisabledStoreReached ==
    /\ last.op = "GetDacFilePath"
    /\ last.native.called /\ ~last.native.enabled
    /\ last.hr = NULL /\ g_dacFilePath = NULL

\* An installed directory of the line major.minor: a subdirectory named
\* major.minor.revision with a revision that is not negative.
VersionDirectory(e, major, minor) ==
    LET v == ScanVersion(e.name) IN
    /\ e.isDir /\ v.ok
    /\ v.major = major /\ v.minor = minor
    /\ v.revision >= 0
LineInstalled(major, minor, listing) ==
    \E i \in 1 .. Len(listing) : VersionDirectory(listing[i], major, minor)
\* dir is a directory of the line major.minor under the root of the machine.
SelectedLine(dir, major, minor) ==
    /\ dir.root = machine.root
    /\ \E i \in 1 .. Len(machine.listing) :
          /\ machine.listing[i].name = dir.version
          /\ VersionDirectory(machine.listing[i], major, minor)

C16_FallbackFailed ==
    /\ last.op = "GetHostRuntime" /\ last.boot.probed
    /\ machine.listing # <<>>
    /\ FAILED(last.hr) /\ machine.root # ""
    /\ g_hostRuntimeDirectory = NoDirectory

Filters == {[major |-> 2, minor |-> 1], [major |-> 2, minor |-> 2],
            [major |-> 3, minor |-> 0], [major |-> 1, minor |-> 1]}
\* The entries of listing in every order.
Reorderings(listing) ==
    LET n == Len(listing) IN
    {[i \in 1 .. n |-> listing[f[i]]] :
        f \in {g \in [1 .. n -> 1 .. n] : \A i, j \in 1 .. n : i # j => g[i] # g[j]}}
\* The subdirectories whose name reads as major.minor.revision for the filter.
ParsedAs(listing, f) ==
    {i \in 1 .. Len(listing) :
        /\ listing[i].isDir /\ ScanVersion(listing[i].name).ok
        /\ ScanVersion(listing[i].name).major = f.major
        /\ ScanVersion(listing[i].name).minor = f.minor}
RevisionAt(listing, i) == ScanVersion(listing[i].name).revision
\* FindDotNetVersion answers for the candidates C of listing: it succeeds when
\* there is one, with one of maximal revision, in whatever order.
SelectsMaxOf(listing, f, C) ==
    LET v == FindDotNetVersion(f.major, f.minor, listing) IN
    /\ (v # NoName) = (C # {})
    /\ v # NoName =>
          /\ \E i \in C : /\ listing[i].name = v
                          /\ \A j \in C : RevisionAt(listing, j) <= RevisionAt(listing, i)
          /\ \A other \in Reorderings(listing) :
                LET w == FindDotNetVersion(f.major, f.minor, other) IN
                w # NoName /\ ScanVersion(w).revision = ScanVersion(v).revision

\* C17 as stated: for every filter, FindDotNetVersion over the install root
\* succeeds exactly when a subdirectory name reads as major.minor.revision with
\* that major and minor, and selects one of maximal revision in any order.
C17_MaxOfParsed ==
    \A f \in Filters : SelectsMaxOf(machine.listing, f, ParsedAs(machine.listing, f))

\* C17: for every filter, FindDotNetVersion over the install root succeeds
\* exactly when a subdirectory name reads as major.minor.revision with that
\* major and minor and a revision that is not negative, and selects one of
\* maximal revision among those, whatever the enumeration order.
C17_MaxOfNonNegative ==
    \A f \in Filters :
        SelectsMaxOf(machine.listing, f,
                     {i \in ParsedAs(machine.listing, f) :
                         RevisionAt(machine.listing, i) >= 0})

\* Two 2.1 directories, the higher revision enumerated first, and GetHostRuntime
\* selected it.
C17_Witness ==
    /\ last.op = "GetHostRuntime" /\ last.boot.probed
    /\ Len(machine.listing) = 2
    /\ machine.listing[1] = [name |-> VersionName(2, 1, 13), isDir |-> TRUE]
    /\ machine.listing[2] = [name |-> VersionName(2, 1, 0), isDir |-> TRUE]
    /\ g_hostRuntimeDirectory.version = VersionName(2, 1, 13)

\* C18: a pinned hosting directory never changes, and a GetHostRuntime call
\* made when one is pinned returns success without probing, whatever is
\* installed; a GetHostRuntime call that succeeds pins a directory and one that
\* fails pins nothing.
C18_PinnedForGood ==
    [][
        /\ g_hostRuntimeDirectory # NoDirectory =>
              /\ g_hostRuntimeDirectory' = g_hostRuntimeDirectory
              /\ last'.op = "GetHostRuntime" =>
                    last'.hr = S_OK /\ ~last'.boot.probed
        /\ (last'.op = "GetHostRuntime" /\ g_hostRuntimeDirectory = NoDirectory) =>
              /\ last'.boot.probed
              /\ FAILED(last'.hr) = (g_hostRuntimeDirectory' = NoDirectory)
    ]_vars

\* A directory is pinned, the installation would now give another one, and
\* GetHostRuntime returned without probing.
C18_Witness ==
    /\ last.op = "GetHostRuntime" /\ ~last.boot.probed /\ last.hr = S_OK
    /\ g_hostRuntimeDirectory # NoDirectory
    /\ DiscoverHostRuntime(machine.root, machine.listing, S_OK).dir
          # g_hostRuntimeDirectory

\* A legacy-path GetLineByILOffset call whose reader calls all succeeded.
LegacyLineAnswered ==
    /\ last.op = "GetLineByILOffset"
    /\ last.lines.path = "legacy" /\ last.lines.fail = "none"
\* offset <= ilOffset, ilOffset being the unsigned 64-bit value of the argument
\* n: a negative n is above every 32-bit offset.
AtOrBefore(offset, n) == n < 0 \/ offset <= n
\* The entries at or before the offset that are not hidden.
VisibleUpTo(table, n) ==
    {i \in 1 .. Len(table) :
        AtOrBefore(table[i].offset, n) /\ table[i].line # HiddenLine}

\* C19: the legacy path of GetLineByILOffset over an offset-ordered table
\* returns the line of the last entry with offset <= ilOffset that is not
\* hidden, and fails (E_FAIL, no line written) when there is none; on offsets
\* [0,5,10] with lines [1,HIDDEN,3] the offset 7 gives line 1.
C19_LastVisibleLine ==
    LegacyLineAnswered =>
        LET q == VisibleUpTo(pdb, last.lines.ilOffset) IN
        /\ q = {} => last.hr = E_FAIL /\ last.lines.line = 0
        /\ q # {} =>
              /\ last.hr = S_OK
              /\ \E i \in q : /\ \A j \in q : j <= i
                              /\ last.lines.line = pdb[i].line
        /\ (pdb = ExampleTable /\ last.lines.ilOffset = 7) => last.lines.line = 1

\* Offset 7 on the table [0,5,10] / [1,HIDDEN,3] gave line 1.
C19_Witness ==
    /\ LegacyLineAnswered
    /\ pdb = ExampleTable /\ last.lines.ilOffset = 7
    /\ last.hr = S_OK /\ last.lines.line = 1

\* C20: the legacy path of GetLineByILOffset called with ilOffset = -1 on
\* offsets [0,5,10] with lines [1,HIDDEN,3] fails with NotFound.
C20_MinusOneNotFound ==
    (LegacyLineAnswered /\ pdb = ExampleTable /\ last.lines.ilOffset = -1) =>
        last.hr = E_FAIL

\* The string with its letters in lower case.
IgnoringCase(str) == [i \in 1 .. Len(str) |-> ToLower(str[i])]
\* The URL has the length of the file name and equals it ignoring case, or is
\* longer, ends with it ignoring case and has a separator just before it.
NameOrSeparatedSuffix(url, filename) ==
    LET before == Len(url) - Len(filename) IN
    \/ before = 0 /\ IgnoringCase(url) = IgnoringCase(filename)
    \/ /\ before > 0
       /\ IgnoringCase(SubSeq(url, before + 1, Len(url))) = IgnoringCase(filename)
       /\ url[before] \in {"/", "\\"}

\* C21: in the legacy path of ResolveSequencePoint a document URL matches the
\* file name exactly when it equals it ignoring case, or is longer, ends with
\* it ignoring case and has '/' or '\' just before that suffix: "foo.cs"
\* matches "foo.cs" and "/src/foo.cs", not "barfoo.cs" nor a shorter URL.
C21_NameOrSeparatedSuffix ==
    (last.op = "ResolveSequencePoint" /\ last.resolve.path = "legacy") =>
        /\ \A i \in 1 .. last.resolve.scanned :
              (i \in last.resolve.matched) = NameOrSeparatedSuffix(docs[i], pFilename)
        /\ pFilename = FooCs =>
              \A i \in 1 .. last.resolve.scanned :
                  (i \in last.resolve.matched) = (docs[i] \in {FooCs, SrcFooCs})

\* "foo.cs" was asked for; "barfoo.cs" did not match and "/src/foo.cs" did.
C21_Witness ==
    /\ last.op = "ResolveSequencePoint" /\ last.resolve.path = "legacy"
    /\ pFilename = FooCs /\ docs = <<BarFooCs, SrcFooCs>>
    /\ last.resolve.scanned = 2 /\ last.resolve.matched = {2}

\* C22: a SymbolReader instance is never bound to both the legacy reader and
\* the portable bridge handle, whatever LoadSymbols calls and queries ran.
C22_AtMostOneBinding ==
    ~(reader.m_pSymReader # NULL /\ reader.m_symbolReaderHandle # 0)

\* LoadSymbols reached its symbol readers (the module is static and its data
\* could be read) and returned.
LoadedStatic == last.op = "LoadSymbols" /\ last.load.static /\ last.hr # "crash"
\* The portable path was entered: its first step, the bootstrap, was called.
PortableAttempted == last.boot.called
PortableNotTouched ==
    ~last.boot.called /\ last.symInit = "none" /\ last.invoked = <<>>

C23_LegacyBound ==
    /\ LoadedStatic /\ ~pal
    /\ last.load.legacy = S_OK /\ PortableNotTouched /\ reader.m_pSymReader # NULL

\* ReadVirtual returned.
ReadReturned == last.op = "ReadVirtual" /\ last.read.called
\* The read has a byte in a known metadata region.
OverlapsMetadata ==
    \E r \in last.read.regions :
        \E a \in last.read.address .. last.read.address + last.read.request - 1 :
            a \in r.start .. r.start + r.size - 1
\* The read was refused: no call of the memory service, nothing written.
Refused(hr) ==
    /\ last.hr = hr
    /\ last.read.service = <<>>
    /\ last.read.buffer = "untouched" /\ last.read.done = "untouched"
\* The read went to the memory service once, as asked, and its answer is the
\* result.
PassedThrough ==
    /\ last.read.service =
          <<[address |-> last.read.address, request |-> last.read.request]>>
    /\ last.hr = last.read.outcome.hr
    /\ last.read.done = last.read.outcome.done

\* C24 as stated: on the FEATURE_PAL build a read overlapping a known metadata
\* region is refused with E_ACCESSDENIED, and every other read is passed to the
\* debugger's memory service and its result returned unchanged.
C24_DeniedOrPassed ==
    ReadReturned =>
        IF pal /\ OverlapsMetadata THEN Refused(E_ACCESSDENIED) ELSE PassedThrough

\* C24 as the code has it: without the debugger's data-spaces interface the
\* read is refused with E_UNEXPECTED; with it, on the FEATURE_PAL build and
\* with the DAC's SOS interface set, a read overlapping a known metadata region
\* is refused with E_ACCESSDENIED; every other read is passed through.
C24_DeniedWhenChecked ==
    ReadReturned =>
        IF ~last.read.extData THEN Refused(E_UNEXPECTED)
        ELSE IF pal /\ last.read.sos /\ OverlapsMetadata THEN Refused(E_ACCESSDENIED)
        ELSE PassedThrough

\* A read of bytes 0..1 with the region 1..2 known was refused on the
\* FEATURE_PAL build.
C24_Witness ==
    /\ ReadReturned /\ pal /\ last.read.extData /\ last.read.sos
    /\ last.read.address = 0 /\ last.read.request = 2 /\ OverlapsMetadata
    /\ last.hr = E_ACCESSDENIED

\* SOSShutdown call s cleaned an existing scratch directory and no removal
\* call failed for a reason of its own.
CleanedUnhindered(s) ==
    /\ sd[s].clean.ran /\ sd[s].clean.existed
    /\ ~sd[s].clean.deleteFailed /\ ~sd[s].clean.refused

C25_SubdirectoryStayed ==
    \E s \in ShutdownCallers :
        /\ CleanedUnhindered(s) /\ sd[s].clean.files > 0
        /\ sd[s].clean.subdirs > 0 /\ ~sd[s].clean.gone

\* The handler that just returned ran the bootstrap and the k-th createDelegate
\* call failed in it.
BindingFailedAt(k) ==
    /\ last'.boot.ran /\ last'.boot.failAt = "bind" /\ last'.boot.binds = k
    /\ last'.hr # "crash"

\* C26: when the k-th of the ten bindings fails, InitializeHosting returns that
\* binding's failure code, the bindings before the k-th are made, the k-th and
\* those after it are left as they were, and the initialized flag stays false.
C26_StopsAtFailedBinding ==
    [][\A k \in 1 .. NumOps :
          BindingFailedAt(k) =>
              /\ last'.boot.hr = last'.boot.code /\ FAILED(last'.boot.hr)
              /\ last'.op = "InitializeHosting" => last'.hr = last'.boot.code
              /\ \A i \in 1 .. NumOps :
                    callbacks'[i] = IF i < k THEN "clr" ELSE callbacks[i]
              /\ ~g_hostingInitialized']_vars

\* InitializeHosting failed at the fifth binding with E_UNEXPECTED: four slots
\* are bound, the rest are empty and the flag is false.
C26_Witness ==
    /\ last.op = "InitializeHosting" /\ last.boot.failAt = "bind"
    /\ last.boot.binds = SlotOf("LoadSymbolsForModule") /\ last.hr = E_UNEXPECTED
    /\ \A i \in 1 .. NumOps :
          callbacks[i] = IF i < SlotOf("LoadSymbolsForModule") THEN "clr" ELSE NULL
    /\ ~g_hostingInitialized

\* GetDacFilePath or GetDbiFilePath returned, no path was recorded before and
\* the debuggee's runtime directory is known: a path was derived from it.
PathDerived ==
    /\ last.op \in CompanionCallers /\ last.hr # "crash"
    /\ ~last.probe.recorded /\ SUCCEEDED(last.probe.dirHr)
\* The paths derived from the runtime directory.
DerivedPaths == {"runtimeDac", "runtimeDbi", "symlinkDac"}
RecordedNow == IF last.op = "GetDacFilePath" THEN g_dacFilePath ELSE g_dbiFilePath

\* C27 as stated: the derived path is cached and returned only if the file is
\* present; on every platform an absent file leaves the derived path uncached
\* and triggers the download pass.
C27_CachedOnlyIfPresent ==
    PathDerived =>
        /\ (last.hr \in DerivedPaths \/ RecordedNow \in DerivedPaths)
              => last.probe.exists
        /\ ~last.probe.exists => last.native.called

\* C27 as the code has it: on the FEATURE_PAL build the derived path is cached
\* and returned exactly when the file is present, and an absent file leaves it
\* uncached and triggers the runtime-only pass; the dbgeng build caches and
\* returns the derived path without testing the file, and runs no pass.
C27_CachedOnlyIfPresentOnPal ==
    PathDerived =>
        /\ last.hr = RecordedNow
        /\ IF pal
           THEN /\ (RecordedNow \in DerivedPaths) = last.probe.exists
                /\ last.native.called = ~last.probe.exists
                /\ last.native.called => last.native.runtimeOnly
           ELSE RecordedNow \in DerivedPaths /\ ~last.native.called

\* On the FEATURE_PAL build the DBI was absent: the pass ran and the derived
\* path was not cached.
C27_Witness ==
    /\ PathDerived /\ pal /\ last.op = "GetDbiFilePath"
    /\ ~last.probe.exists /\ last.native.called /\ g_dbiFilePath # "runtimeDbi"
\* On the dbgeng build the DAC was absent and its derived path was cached.
C27_AbsentCached ==
    /\ PathDerived /\ ~pal /\ last.op = "GetDacFilePath"
    /\ ~last.probe.exists /\ g_dacFilePath = "runtimeDac"

\* The companion was found in the runtime directory on a FEATURE_PAL host.
FoundOnPal == PathDerived /\ pal /\ last.probe.exists

\* C28 as stated: on POSIX hosts, for each companion found in the runtime
\* directory a symlink is made in the scratch directory and its path returned;
\* when the link cannot be made the path in the runtime directory is returned.
C28_LinkForEachCompanion ==
    FoundOnPal =>
        \/ last.probe.link = "made" /\ last.hr \notin {"runtimeDac", "runtimeDbi"}
        \/ last.probe.link = "failed" /\ last.hr \in {"runtimeDac", "runtimeDbi"}

\* C28 as the code has it: only GetDacFilePath, and only on a Linux host, makes
\* the link: it returns the link's path when the link was made and the path in
\* the runtime directory when it failed; GetDbiFilePath and the other
\* FEATURE_PAL hosts make no link and return the path in the runtime directory.
C28_LinkForDacOnLinux ==
    FoundOnPal =>
        IF last.op = "GetDacFilePath"
        THEN /\ last.hr = IF last.probe.link = "made" THEN "symlinkDac" ELSE "runtimeDac"
             /\ last.probe.link # "none" => g_tmpPath # NULL
             /\ last.probe.link = "made" => scratch.files > 0
        ELSE last.probe.link = "none" /\ last.hr = "runtimeDbi"

\* The link to the DAC was made and returned.
C28_Witness ==
    /\ FoundOnPal /\ last.op = "GetDacFilePath"
    /\ last.probe.link = "made" /\ last.hr = "symlinkDac" /\ g_dacFilePath = "symlinkDac"
\* The link could not be made and the path in the runtime directory came back.
C28_LinkFailed ==
    /\ FoundOnPal /\ last.op = "GetDacFilePath"
    /\ last.probe.link = "failed" /\ last.hr = "runtimeDac"

\* SymbolFileCallback returned.
SymbolFileReported == last'.op = "SymbolFileCallback"
CompanionRecord(name) == IF name = "mscordaccore" THEN g_dacFilePath ELSE g_dbiFilePath
CompanionRecordAfter(name) ==
    IF name = "mscordaccore" THEN g_dacFilePath' ELSE g_dbiFilePath'
\* A companion's path is recorded when none was, and kept otherwise; nothing
\* is forwarded.
CompanionRecorded ==
    /\ CompanionRecordAfter(last'.sym.module) =
          IF CompanionRecord(last'.sym.module) = NULL THEN last'.sym.path
          ELSE CompanionRecord(last'.sym.module)
    /\ last'.sym.forwarded = <<>>
RecordsUnchanged == UNCHANGED <<g_dacFilePath, g_dbiFilePath>>

\* C29 as stated: for a companion's module file name the callback records the
\* symbol-file path when none is recorded, keeps a recorded one and forwards
\* nothing; for every other module file name it forwards the path to the
\* debugger's symbol subsystem.
C29_RecordsOrForwards ==
    [][SymbolFileReported =>
          IF last'.sym.module \in CompanionFiles THEN CompanionRecorded
          ELSE last'.sym.forwarded = <<last'.sym.path>>]_vars

\* C29 as the code has it: a companion's path is recorded or kept and not
\* forwarded; the runtime module's own file is ignored; any other file is
\* forwarded, once, on the FEATURE_PAL build when the debugger's ILLDBServices2
\* interface is obtained, and dropped otherwise; only a companion's own record
\* ever changes.
C29_RecordsOrForwardsOnPal ==
    [][SymbolFileReported =>
          /\ IF last'.sym.module \in CompanionFiles THEN CompanionRecorded
             ELSE /\ RecordsUnchanged
                  /\ last'.sym.forwarded =
                        IF /\ last'.sym.module # "coreclr"
                           /\ pal /\ SUCCEEDED(last'.sym.qi)
                        THEN <<last'.sym.path>> ELSE <<>>
          /\ last'.sym.module = "mscordaccore" => UNCHANGED g_dbiFilePath
          /\ last'.sym.module = "mscordbi" => UNCHANGED g_dacFilePath]_vars

\* A second file for the DAC was reported and the first path was kept.
C29_Witness ==
    /\ last.op = "SymbolFileCallback" /\ last.sym.module = "mscordaccore"
    /\ last.sym.path = "symbolFileB" /\ g_dacFilePath = "symbolFileA"
\* Another module's file was forwarded.
C29_Forwarded ==
    /\ last.op = "SymbolFileCallback" /\ last.sym.module = "native"
    /\ last.sym.forwarded = <<"symbolFileA">>

\* The list was built.
TpaBuilt == last.op = "InitializeHostingTpaList" /\ last.tpa.built
ScannedDirectories == {"sos", "runtime"}
EntriesOf(d) == IF d = "sos" THEN sosDir ELSE runtimeDir
\* Directory d holds the file (not a directory) with this name.
HoldsFile(d, filename) ==
    \E i \in 1 .. Len(EntriesOf(d)) :
        EntriesOf(d)[i].name = filename /\ ~EntriesOf(d)[i].isDir
Listed(d, filename) ==
    \E i \in 1 .. Len(last.tpa.list) :
        last.tpa.list[i] = [dir |-> d, file |-> filename]

\* C30 as stated: when name.ni.dll and name.dll are both present in the
\* scanned directories, in the same one or in different ones, the list has
\* the optimized file and not the generic one.
C30_OptimizedWinsAnywhere ==
    TpaBuilt =>
        \A n \in AssemblyNames : \A d1, d2 \in ScannedDirectories :
            (HoldsFile(d1, Optimized(n)) /\ HoldsFile(d2, Generic(n))) =>
                /\ Listed(d1, Optimized(n))
                /\ ~Listed(d2, Generic(n))

\* C30 as the code has it: when name.ni.dll and name.dll are in the same
\* directory the list has the optimized file of that directory and not its
\* generic one; each directory is scanned with its own set of added names, so
\* a generic file whose optimized twin is only in the other directory is
\* listed as well (the extension's own assembly excepted).
C30_OptimizedWinsWithinDirectory ==
    TpaBuilt =>
        \A n \in AssemblyNames : \A d \in ScannedDirectories :
            /\ (HoldsFile(d, Optimized(n)) /\ HoldsFile(d, Generic(n))) =>
                  Listed(d, Optimized(n)) /\ ~Listed(d, Generic(n))
            /\ (HoldsFile(d, Generic(n)) /\ ~HoldsFile(d, Optimized(n))
                  /\ <<n>> # SOSManagedDllName) => Listed(d, Generic(n))

\* a.dll came before a.ni.dll in the extension's directory: a.ni.dll is listed
\* and a.dll is not.
C30_Witness ==
    /\ TpaBuilt
    /\ sosDir = <<[name |-> Generic("a"), isDir |-> FALSE],
                  [name |-> Optimized("a"), isDir |-> FALSE]>>
    /\ Listed("sos", Optimized("a")) /\ ~Listed("sos", Generic("a"))
\* a.dll of the extension's directory and a.ni.dll of the runtime's are both
\* listed.
C30_BothListed ==
    /\ TpaBuilt
    /\ HoldsFile("sos", Generic("a")) /\ HoldsFile("runtime", Optimized("a"))
    /\ Listed("sos", Generic("a")) /\ Listed("runtime", Optimized("a"))

(***************************************************************************)
(* The trusted-assembly list: duplicates                                   *)
(***************************************************************************)
\* The logical name of a file: its name before the extensions.
LogicalName(filename) == <<filename[1]>>

\* C31: the list built by InitializeHosting has no logical assembly name and
\* no file path more than once, and never has the extension's own managed
\* assembly.
C31_DeDuplicated ==
    TpaBuilt =>
        /\ \A i, j \in 1 .. Len(last.tpa.list) :
              i # j => /\ LogicalName(last.tpa.list[i].file)
                            # LogicalName(last.tpa.list[j].file)
                       /\ last.tpa.list[i] # last.tpa.list[j]
        /\ \A i \in 1 .. Len(last.tpa.list) :
              LogicalName(last.tpa.list[i].file) # SOSManagedDllName
\* The parts of C31 taken one at a time: no path twice; no logical name twice
\* within one directory; no logical name in both directories; the extension's
\* own assembly is absent.
C31_NoPathTwice ==
    TpaBuilt =>
        \A i, j \in 1 .. Len(last.tpa.list) :
            i # j => last.tpa.list[i] # last.tpa.list[j]
C31_NoNameTwiceInDirectory ==
    TpaBuilt =>
        \A i, j \in 1 .. Len(last.tpa.list) :
            (i # j /\ last.tpa.list[i].dir = last.tpa.list[j].dir) =>
                LogicalName(last.tpa.list[i].file) # LogicalName(last.tpa.list[j].file)
C31_NoNameInBothDirectories ==
    TpaBuilt =>
        \A i, j \in 1 .. Len(last.tpa.list) :
            last.tpa.list[i].dir # last.tpa.list[j].dir =>
                LogicalName(last.tpa.list[i].file) # LogicalName(last.tpa.list[j].file)
C31_OwnAssemblyAbsent ==
    TpaBuilt =>
        \A i \in 1 .. Len(last.tpa.list) :
            LogicalName(last.tpa.list[i].file) # SOSManagedDllName

(***************************************************************************)
(* ResolveSequencePoint: the document decided on                           *)
(***************************************************************************)
\* A legacy-path call in which no call on the reader or on a document other
\* than FindClosestLine failed.
LegacyResolved ==
    /\ last.op = "ResolveSequencePoint" /\ last.resolve.path = "legacy"
    /\ last.resolve.fail = "none"
\* Document i matches the file name / matches it and FindClosestLine succeeded
\* on it in the call.
Matching(i) == UrlMatches(docs[i], pFilename)
Located(i) == Matching(i) /\ last.resolve.closest[i]
\* The call ended on document i: i is the document decided on and the last one
\* consulted, and the result is that of its offset.
DecidedOn(i) ==
    /\ last.resolve.decided = i /\ last.resolve.scanned = i
    /\ last.resolve.end \in {"offset", "invalid"}
    /\ last.hr = IF last.resolve.end = "invalid" THEN E_FAIL ELSE S_OK

\* C32 as stated: the call decides on the first document whose URL matches
\* and consults no document after it.
C32_FirstMatchDecides ==
    LegacyResolved =>
        \A i \in 1 .. Len(docs) :
            (Matching(i) /\ \A j \in 1 .. (i - 1) : ~Matching(j)) =>
                /\ last.resolve.scanned = i
                /\ last.resolve.decided \in {0, i}

\* C32 as the code has it: the call decides on the first document whose URL
\* matches and on which FindClosestLine succeeds; it gives S_OK with that
\* document's token and offset, E_FAIL when the offset is -1, and consults no
\* later document.  A matching document on which FindClosestLine fails is
\* passed over, and with no document left the call gives E_FAIL.
C32_FirstLocatedMatchDecides ==
    LegacyResolved =>
        /\ \A i \in 1 .. Len(docs) :
              (Located(i) /\ \A j \in 1 .. (i - 1) : ~Located(j)) => DecidedOn(i)
        /\ (\A i \in 1 .. Len(docs) : ~Located(i)) =>
              /\ last.resolve.decided = 0 /\ last.resolve.scanned = Len(docs)
              /\ last.hr = E_FAIL

\* Two documents match; FindClosestLine fails on the first and the call
\* decides on the second.
C32_Witness ==
    /\ LegacyResolved
    /\ docs = <<FooCs, SrcFooCs>> /\ pFilename = FooCs
    /\ ~last.resolve.closest[1] /\ last.resolve.closest[2]
    /\ DecidedOn(2) /\ last.hr = S_OK
\* FindClosestLine failed on the first matching document and a later one is
\* consulted.
C32_LaterConsulted ==
    /\ LegacyResolved
    /\ \E i \in 1 .. Len(docs) :
          /\ Matching(i) /\ ~last.resolve.closest[i]
          /\ last.resolve.scanned > i

(***************************************************************************)
(* GetNamedLocalVariable: the order of the search                          *)
(***************************************************************************)
\* A legacy-path call in which no GetMethod / GetRootScope / GetLocals /
\* GetChildren call failed.
LegacyLocalSearched ==
    /\ last.op = "GetNamedLocalVariable" /\ last.local.path = "legacy"
    /\ last.local.fail = "none"
NumScopes == Len(scopes.parent)
\* The locals of scope s that have the index asked for, and the first of them.
LocalsWithIndex(s) ==
    {i \in 1 .. Len(scopes.locals[s]) :
        /\ scopes.locals[s][i].address
        /\ scopes.locals[s][i].index = last.local.localIndex}
HasLocal(s) == LocalsWithIndex(s) # {}
TheLocal(s) ==
    LET m == CHOOSE i \in LocalsWithIndex(s) : \A j \in LocalsWithIndex(s) : i <= j
    IN  [scope |-> s, local |-> m, var |-> scopes.locals[s][m]]
NameFor(s) == IF TheLocal(s).var.name THEN "symbol" ELSE "placeholder"
\* The scopes 1 .. k, that is the first k scopes in pre-order.
PreOrder(k) == [i \in 1 .. k |-> i]

\* C33 as stated: pre-order search; the first local found with the index
\* determines the result and no later scope is searched; a failed name
\* lookup gives the placeholder name.
C33_FirstFoundDecides ==
    LegacyLocalSearched =>
        IF \A s \in 1 .. NumScopes : ~HasLocal(s)
        THEN last.hr = E_FAIL /\ last.local.visited = PreOrder(NumScopes)
        ELSE LET s == CHOOSE q \in 1 .. NumScopes :
                        HasLocal(q) /\ \A r \in 1 .. (q - 1) : ~HasLocal(r)
             IN  /\ last.local.visited = PreOrder(s)
                 /\ last.local.name = NameFor(s)
                 /\ last.hr = IF TheLocal(s).var.value THEN S_OK ELSE E_FAIL

\* The scopes the search can come to, in pre-order: those with no enclosing
\* scope that has the local (a scope that has it never searches its children).
Searchable ==
    SelectSeq(PreOrder(NumScopes),
              LAMBDA s : \A a \in Enclosing(scopes.parent, scopes.parent[s]) :
                            ~HasLocal(a))
\* The search ends in scope s: it has the local and the value is fetched, or
\* it has the local and is the root.
EndsIn(s) == HasLocal(s) /\ (TheLocal(s).var.value \/ s = 1)
\* The position in Searchable where the search ends.
LastSearched ==
    LET E == {k \in 1 .. Len(Searchable) : EndsIn(Searchable[k])}
    IN  IF E = {} THEN Len(Searchable) ELSE CHOOSE k \in E : \A j \in E : k <= j

\* C33 as the code has it: pre-order, own locals before children, children
\* in declaration order, placeholder name on a failed name lookup.  The first
\* local found decides when its value is fetched or when it is in the root
\* scope; a local found in a nested scope whose value cannot be fetched ends
\* only that scope's search, and the scopes after it are searched.
C33_FirstFetchedDecides ==
    LegacyLocalSearched =>
        LET visited == SubSeq(Searchable, 1, LastSearched)
            holding == SelectSeq(visited, HasLocal)
            end == Searchable[LastSearched]
        IN  /\ last.local.visited = visited
            /\ last.local.found =
                  [i \in 1 .. Len(holding) |->
                      [scope |-> holding[i], local |-> TheLocal(holding[i]).local]]
            /\ last.local.name =
                  IF holding = <<>> THEN "none" ELSE NameFor(holding[Len(holding)])
            /\ last.hr = IF HasLocal(end) /\ TheLocal(end).var.value
                         THEN S_OK ELSE E_FAIL

\* The root has two child scopes, the first with a child of its own; the
\* local is in that grandchild, without a name, and in the second child: the
\* grandchild is reached first and the name is the placeholder.
C33_Witness ==
    /\ LegacyLocalSearched /\ last.local.localIndex = 0
    /\ scopes.parent = <<0, 1, 2, 1>>
    /\ ~HasLocal(1) /\ ~HasLocal(2) /\ HasLocal(3) /\ HasLocal(4)
    /\ last.local.visited = <<1, 2, 3>>
    /\ last.local.name = "placeholder" /\ last.hr = S_OK
\* The value of the first local found could not be fetched and a later scope
\* was searched.
C33_LaterScopeSearched ==
    /\ LegacyLocalSearched
    /\ Len(last.local.found) = 2
    /\ last.local.found[1].scope < last.local.found[2].scope
    /\ last.hr = S_OK

(***************************************************************************)
(* LoadNativeSymbols: the result                                           *)
(***************************************************************************)
\* LoadNativeSymbols ran with the store enabled and a call it made on the
\* debugger host failed (the dbgeng build makes calls only when runtimeOnly).
NativeLookupFailed ==
    /\ last.op = "LoadNativeSymbols" /\ last.native.called
    /\ last.native.enabled /\ FAILED(last.native.lookup)
    /\ pal \/ last.native.runtimeOnly

\* C34: when a debugger-host call made by LoadNativeSymbols with the store
\* enabled fails, LoadNativeSymbols returns that failure code and not success.
C34_FailureReturned ==
    NativeLookupFailed => last.hr = last.native.lookup
\* The same on the FEATURE_PAL build, where hr is the function's own variable.
C34_FailureReturnedOnPal ==
    (NativeLookupFailed /\ pal) => last.hr = last.native.lookup
\* On the dbgeng build the failed lookup of the runtime module is answered
\* with S_OK.
C34_FailureLost ==
    NativeLookupFailed /\ ~pal /\ last.hr = S_OK

(***************************************************************************)
(* Interleaved GetThreadContext calls (SpecThreadContextInterleaved)       *)
(***************************************************************************)
\* The call of c is between its switch and its restore.
Switched(c) == ~pal /\ tc[c].pc \in {"fetch", "restore"}
\* No step of another call is taken while the call of c is between its switch
\* and its restore.
NoStepInsideSwitch ==
    \A c, d \in Callers : (c # d /\ Switched(c)) => tc'[d] = tc[d]
\* A fetch that succeeded read the context of the thread its call asked for.
FetchReadsRequested ==
    \A c \in Callers :
        (~pal /\ tc[c].fetchedThread # -1) => tc[c].fetchedThread = tc[c].req
\* Both calls have returned, both began with the same current thread and no
\* restoring call failed: that thread is current again.
RestoredAfterBoth ==
    (/\ \A c \in Callers : GtcReturned(c) /\ tc[c].restore = "ok"
     /\ \A c, d \in Callers : tc[c].before = tc[d].before)
        => \A c \in Callers : curThread = tc[c].before

\* C35: when two GetThreadContext calls interleave, no step of one runs
\* between the other's switch and restore; after both have returned the
\* current thread is the one from before either call, and each call's fetch
\* read the context of the thread that call asked for.
C35_SwitchToRestoreAtomic ==
    /\ [][NoStepInsideSwitch]_vars
    /\ [](FetchReadsRequested /\ RestoredAfterBoth)
\* The consequences alone.
C35_FetchReadsRequested == FetchReadsRequested
C35_RestoredAfterBoth == RestoredAfterBoth
\* A call fetched the context of the thread the other call had switched to.
C35_WrongThreadFetched ==
    \E c, d \in Callers :
        /\ c # d /\ ~pal
        /\ tc[c].fetchedThread = tc[d].req
        /\ tc[c].fetchedThread # tc[c].req /\ tc[c].req # tc[c].before

C36_EnabledByLoadSymbols ==
    /\ last.op = "LoadSymbols" /\ last.symInit = "first"
    /\ g_symbolStoreInitialized /\ g_hostingInitialized

(***************************************************************************)
(* How often the hosted runtime is started (SpecHosting)                   *)
(***************************************************************************)
\* C37: over any sequence of calls that reach InitializeHosting, failed and
\* retried ones included, coreclr_initialize returns success at most once.
C37_RuntimeStartedAtMostOnce == runtimeStarts <= 1

\* What the code keeps: each run of the bootstrap starts the runtime at most
\* once, and no run follows the one that set g_hostingInitialized.
C37_OneStartPerRun ==
    /\ runtimeStarts <= bootRuns
    /\ [][g_hostingInitialized => runtimeStarts' = runtimeStarts]_vars

\* The runtime was started, a binding failed, and the retry started it again.
C37_StartedTwice ==
    /\ runtimeStarts = 2 /\ bootRuns = 2
    /\ last.boot.ran /\ last.boot.startOk

(***************************************************************************)
(* A failed portable load and the reader's handle (SpecHosting)            *)
(***************************************************************************)
\* LoadSymbols went on to LoadSymbolsForPortablePDB (the only place where it
\* calls InitializeHosting) and failed, on a reader that held a handle.
PortableLoadFailed ==
    /\ last'.op = "LoadSymbols" /\ last'.boot.called
    /\ FAILED(last'.hr)
    /\ reader.m_symbolReaderHandle # 0

\* C38: a LoadSymbolsForPortablePDB call that fails leaves the reader's
\* binding as it was: a non-zero portable handle held before the call is held
\* after it, so that queries still go to the bridge.
C38_FailureKeepsBinding ==
    [][PortableLoadFailed =>
          reader'.m_symbolReaderHandle = reader.m_symbolReaderHandle]_vars

\* What the code keeps: a call that fails before it reaches the bridge's
\* operation (in InitializeHosting or in the name conversion) leaves the
\* handle; a call that fails because the operation returned 0 holds 0.
C38_FailureBeforeTheCallKeepsBinding ==
    [][PortableLoadFailed =>
          IF "LoadSymbolsForModule" \in InvokedOps(last')
          THEN reader'.m_symbolReaderHandle = 0
          ELSE reader'.m_symbolReaderHandle = reader.m_symbolReaderHandle]_vars

(***************************************************************************)
(* The scratch directory across SOSShutdown (SpecTempDirectory)            *)
(***************************************************************************)
\* A GetTempDirectory call has just returned (or nothing has changed).
TempDirectoryReturned == last'.op = "GetTempDirectory"
\* SOSShutdown caller s takes the recorded path in this step.
TakesPath(s) == sd[s].pc = "idle" /\ sd'[s].pc # "idle" /\ g_tmpPath # NULL

\* C39: GetTempDirectory creates and records the scratch directory when no
\* path is recorded, on its first call and again on a call after SOSShutdown,
\* and returns the recorded path unchanged otherwise; only SOSShutdown removes
\* the record, and every SOSShutdown call that finds a record, the first or a
\* later one, goes on to a removal in the filesystem.
C39_RecreatedAfterShutdown ==
    /\ [][TempDirectoryReturned =>
            /\ last'.hr = g_tmpPath' /\ last'.hr # NULL
            /\ IF g_tmpPath = NULL
               THEN /\ tmpSets' = tmpSets + 1
                    /\ scratch'.exists
                    /\ g_tmpPath' = TempDirectoryName
               ELSE /\ tmpSets' = tmpSets
                    /\ scratch' = scratch
                    /\ g_tmpPath' = g_tmpPath]_vars
    /\ [][(g_tmpPath # NULL /\ g_tmpPath' # g_tmpPath) =>
            \E s \in ShutdownCallers : TakesPath(s)]_vars
    /\ [][\A s \in ShutdownCallers :
            /\ TakesPath(s) => sd'[s].pc = "cleanup" /\ sd'[s].tmpPath = g_tmpPath
            /\ (sd[s].pc = "cleanup" /\ sd'[s].pc # "cleanup") =>
                  /\ sd'[s].fsOps = 1 /\ sd'[s].clean.ran
                  /\ cleanups' = cleanups + 1]_vars

\* The directory was created a second time after a shutdown had removed the
\* first, and a second SOSShutdown has run its removal.
C39_Witness ==
    /\ tmpSets = 2 /\ cleanups = 2
    /\ last.op = "SOSShutdown"
    /\ g_tmpPath = NULL

====
